---- MODULE Spec2Model ----
(***************************************************************************)
(* Model of the spin mini-game, the point/currency converter and the       *)
(* withdrawal accounting engine of the learning platform backend           *)
(* (backend/src/routes/auth.js, account.js, admin.js).                     *)
(*                                                                         *)
(* Every request handler is a small state machine: one step per database   *)
(* round trip (each `await`), the synchronous code that follows an await   *)
(* being part of the step that performs the read or write.  Requests run   *)
(* in request slots ("procs") and interleave freely at the awaits.         *)
(*                                                                         *)
(* Units: time is in hours, currency in micro-dollars (balanceDollar is    *)
(* kept to 6 decimals by toFixed(6)), points are integers.                 *)
(***************************************************************************)
EXTENDS Integers, Sequences, FiniteSets, TLC

(* ------------------------------ bounds -------------------------------- *)
MaxProcs == 2          \* request slots that may be in flight together
MaxWithdrawals == 3    \* withdrawal records ever created, requests one at a time
MaxRaceWithdrawals == 2 \* withdrawal records ever created, requests interleaving
MaxSpins == 6          \* spin records ever created, requests one at a time
MaxBalSpins == 2       \* spin records ever created, requests interleaving
MaxBalWithdrawals == 1 \* withdrawal records, all kinds of request interleaving
TickHours == 13        \* the clock advances in steps of this many hours
MaxTicks == 2          \* number of clock steps

(* ------------------------- program constants -------------------------- *)
MICRO == 1000000                 \* micro-dollars per dollar (toFixed(6))
MILLI == 1000                    \* micro-dollars per 0.001 dollar (toFixed(3))
POINT_TO_USD == 3000             \* 0.003 dollar per point, in micro-dollars
WITHDRAWAL_24H_CAP_USD == 100
MIN_WITHDRAW_AMOUNT_USD == 30
HOURS_24 == 24                   \* 24 * 3600 * 1000 ms, in hours
MIN_BET == 10
MAX_BET_SERVER == 100
DAILY_LIMIT == 5
TOP_PRIZE_BASE_PROB == 10        \* 0.001, in units of 0.0001

WITHDRAWAL_24H_CAP == WITHDRAWAL_24H_CAP_USD * MICRO
MIN_WITHDRAW_AMOUNT == MIN_WITHDRAW_AMOUNT_USD * MICRO
MS_24H == HOURS_24

\* account.js:275 reads WITHDRAWAL_REQUEST_COUNT_LIMIT, which no file declares
WithdrawalRequestCountLimitDeclared == FALSE

(* ------------------------------ universe ------------------------------ *)
Users == {"u1", "a1"}
Role(u) == IF u = "a1" THEN "admin" ELSE "user"
Admins == {u \in Users : Role(u) = "admin"}
Procs == 1..MaxProcs
MaxTime == TickHours * MaxTicks

None == -1             \* null / undefined / absent
USD(n) == n * MICRO

Min(a, b) == IF a <= b THEN a ELSE b
Max(a, b) == IF a >= b THEN a ELSE b

VARIABLES
  now,            \* wall clock (Date.now()), hours
  pointsCurrent,  \* User.pointsCurrent, per user
  balanceDollar,  \* User.balanceDollar, per user, micro-dollars
  withdrawals,    \* Withdrawal collection: id -> document
  nextWid,        \* next Withdrawal _id
  spins,          \* Spin collection: id -> document
  nextSid,        \* next Spin _id
  spinControls,   \* SpinControl collection, in natural (insertion) order
  procs,          \* request slots: handler position and locals
  reply           \* the response sent by the last step, NoReply if it sent none

vars == <<now, pointsCurrent, balanceDollar, withdrawals, nextWid, spins,
          nextSid, spinControls, procs, reply>>

(* ------------------------- requests in flight ------------------------- *)
NoReply == [op |-> "none", uid |-> "u1", wid |-> 0, arg |-> None, code |-> 0,
            err |-> "", spent24 |-> None, pending24 |-> None,
            remainingVerified |-> None, remainingIncludingPending |-> None,
            nextAllowedAt |-> None, cap |-> None, val |-> None, out |-> None,
            delta |-> 0, added |-> 0, options |-> <<>>, weights |-> <<>>,
            percents |-> <<>>, disabled |-> FALSE, reason |-> "",
            deducted |-> 0]

IdleProc == [op |-> "none", pc |-> "idle", uid |-> "u1", wid |-> 0, arg |-> None,
             since |-> None, at |-> None, v24 |-> 0, p24 |-> 0, bal |-> 0,
             newBal |-> 0, pts |-> 0, newPts |-> 0, amt |-> 0, out |-> None,
             owner |-> "u1", disabled |-> FALSE, reason |-> ""]

Free(p) == procs[p].pc = "idle"
\* slots are interchangeable: a request takes the lowest free slot
CanStart(p) == Free(p) /\ \A q \in Procs : q < p => ~Free(q)

NewProc(op, pc, uid, wid, arg) ==
  [IdleProc EXCEPT !.op = op, !.pc = pc, !.uid = uid, !.wid = wid, !.arg = arg]

Reply(op, uid, wid, arg, code, err) ==
  [NoReply EXCEPT !.op = op, !.uid = uid, !.wid = wid, !.arg = arg,
                  !.code = code, !.err = err]
ReplyOf(me, code, err) == Reply(me.op, me.uid, me.wid, me.arg, code, err)

\* the handler goes on to its next await
Go(p, rec) == procs' = [procs EXCEPT ![p] = rec] /\ reply' = NoReply
\* res.status(code).json(...): the request ends and its slot is free again
End(p, rsp) == procs' = [procs EXCEPT ![p] = IdleProc] /\ reply' = rsp

(* --------------------------- ledger queries --------------------------- *)
RECURSIVE SumAmount(_, _)
SumAmount(ws, ids) ==
  IF ids = {} THEN 0
  ELSE LET i == CHOOSE x \in ids : TRUE
       IN ws[i].amount + SumAmount(ws, ids \ {i})

\* { userId, status: 'verified', verifiedAt: { $gte: since } }
VerifiedIn(ws, u, since) ==
  {i \in DOMAIN ws : /\ ws[i].userId = u
                     /\ ws[i].status = "verified"
                     /\ ws[i].verifiedAt # None
                     /\ ws[i].verifiedAt >= since}

\* { userId, status: 'pending', requestedAt: { $gte: since } }
PendingIn(ws, u, since) ==
  {i \in DOMAIN ws : /\ ws[i].userId = u
                     /\ ws[i].status = "pending"
                     /\ ws[i].requestedAt >= since}

\* $group: { total: { $sum: '$amount' } }
VerifiedTotal(ws, u, since) == SumAmount(ws, VerifiedIn(ws, u, since))
PendingTotal(ws, u, since) == SumAmount(ws, PendingIn(ws, u, since))

MinOf(S) == CHOOSE x \in S : \A y \in S : x <= y

\* findOne(...).sort({ verifiedAt: 1 }) / .sort({ requestedAt: 1 }), then the
\* earlier of the two dates + 24h; null when neither exists
EarliestDate(ws, u, since) ==
  LET vs == {ws[i].verifiedAt : i \in VerifiedIn(ws, u, since)}
      ps == {ws[i].requestedAt : i \in PendingIn(ws, u, since)}
  IN IF vs \cup ps = {} THEN None ELSE MinOf(vs \cup ps)

NextAllowed(ws, u, since) ==
  LET d == EarliestDate(ws, u, since)
  IN IF d = None THEN None ELSE d + MS_24H

\* Number(x.toFixed(3)) on a micro-dollar amount: round half up to 0.001
ToFixed3(x) == ((x + (MILLI \div 2)) \div MILLI) * MILLI

RemainingOf(total) == Max(0, WITHDRAWAL_24H_CAP - total)
userDb == <<pointsCurrent, balanceDollar>>
ledgerDb == <<withdrawals, nextWid>>
spinDb == <<spins, nextSid, spinControls>>

(* ---------------- POST /api/account/withdraw (account.js) ------------- *)
\* for comparison: the requested amount taken as asked, without the clamp
WithdrawAmountAsAsked(arg, balance) == IF arg = None THEN balance ELSE arg

\* lines 489-490: amount = amountRequested === null ? balance : min(amountRequested, balance)
WithdrawAmount(arg, balance) == IF arg = None THEN balance ELSE Min(arg, balance)

\* withdraw requests that may still create a document
Creating == {q \in Procs : procs[q].op = "withdraw"
                           /\ procs[q].pc \in {"w_aggV", "w_aggP", "w_create"}}

\* lines 475-509: validate phone and amount, load the user, derive and validate
\* the amount, fix the window
WithdrawLoadUser(p, u, arg, phone) ==
  LET balance == balanceDollar[u]
      amount == WithdrawAmount(arg, balance)
      rsp(code, err) == Reply("withdraw", u, 0, arg, code, err)
  IN /\ CanStart(p)
     /\ IF ~phone THEN End(p, rsp(400, "Phone required"))
        ELSE IF arg # None /\ arg <= 0 THEN End(p, rsp(400, "Invalid amount"))
        ELSE IF amount <= 0 THEN End(p, rsp(400, "Insufficient balance"))
        ELSE IF amount < MIN_WITHDRAW_AMOUNT THEN End(p, rsp(400, "Minimum withdraw"))
        ELSE Go(p, [NewProc("withdraw", "w_aggV", u, 0, arg) EXCEPT
                      !.amt = amount, !.since = now - MS_24H])
     /\ UNCHANGED <<now, userDb, ledgerDb, spinDb>>

\* lines 513-517: verified total of the trailing 24 hours
WithdrawAggV(p) ==
  LET me == procs[p]
  IN /\ me.op = "withdraw" /\ me.pc = "w_aggV"
     /\ Go(p, [me EXCEPT !.pc = "w_aggP",
                         !.v24 = VerifiedTotal(withdrawals, me.uid, me.since)])
     /\ UNCHANGED <<now, userDb, ledgerDb, spinDb>>

\* for comparison: a gate that counts verified amounts only
CapGateIgnoringPending(role, amount, verified24, pending24) ==
  role # "admin" /\ amount > Max(0, WITHDRAWAL_24H_CAP - verified24)

\* line 534: !isUserAdmin && amount > remainingIncludingPending
CapGateRejects(role, amount, verified24, pending24) ==
  role # "admin" /\ amount > RemainingOf(verified24 + pending24)

\* lines 519-534 and 564-570: pending total, the cap gate, and the document that
\* Withdrawal.create is called with (requestedAt: new Date())
WithdrawAggP(p) ==
  LET me == procs[p]
      pending24 == PendingTotal(withdrawals, me.uid, me.since)
  IN /\ me.op = "withdraw" /\ me.pc = "w_aggP"
     /\ IF CapGateRejects(Role(me.uid), me.amt, me.v24, pending24)
        THEN Go(p, [me EXCEPT !.pc = "w_capNext", !.p24 = pending24])
        ELSE Go(p, [me EXCEPT !.pc = "w_create", !.v24 = 0, !.at = now])
     /\ UNCHANGED <<now, userDb, ledgerDb, spinDb>>

\* lines 530-534: one of the two aggregations rejects; the catch sets
\* verified24 = 0 and pending24 = 0 and the handler goes on to the cap gate
WithdrawAggThrows(p) ==
  LET me == procs[p]
  IN /\ me.op = "withdraw" /\ me.pc \in {"w_aggV", "w_aggP"}
     /\ IF CapGateRejects(Role(me.uid), me.amt, 0, 0)
        THEN Go(p, [me EXCEPT !.pc = "w_capNext", !.v24 = 0, !.p24 = 0])
        ELSE Go(p, [me EXCEPT !.pc = "w_create", !.v24 = 0, !.at = now])
     /\ UNCHANGED <<now, userDb, ledgerDb, spinDb>>

\* lines 535-560: the two findOne look-ups for nextAllowedAt (read-only, merged
\* into one step) and the cap-exceeded reply
WithdrawCapReject(p) ==
  LET me == procs[p]
  IN /\ me.op = "withdraw" /\ me.pc = "w_capNext"
     /\ End(p, [ReplyOf(me, 400, "Request would exceed cap") EXCEPT
                  !.remainingVerified = ToFixed3(RemainingOf(me.v24)),
                  !.remainingIncludingPending = ToFixed3(RemainingOf(me.v24 + me.p24)),
                  !.cap = WITHDRAWAL_24H_CAP, !.val = me.amt,
                  !.nextAllowedAt = NextAllowed(withdrawals, me.uid, me.since)])
     /\ UNCHANGED <<now, userDb, ledgerDb, spinDb>>

NewWithdrawal(u, amount, at) ==
  [userId |-> u, amount |-> ToFixed3(amount), status |-> "pending",
   requestedAt |-> at, verifiedAt |-> None, verifiedBy |-> None]

\* for comparison: a request that debits the balance when it creates the record
WithdrawCreateDebiting(p) ==
  LET me == procs[p]
  IN /\ me.op = "withdraw" /\ me.pc = "w_create"
     /\ withdrawals' = withdrawals @@ (nextWid :> NewWithdrawal(me.uid, me.amt, me.at))
     /\ nextWid' = nextWid + 1
     /\ balanceDollar' = [balanceDollar EXCEPT ![me.uid] = @ - Min(@, me.amt)]
     /\ Go(p, [me EXCEPT !.pc = "w_summary", !.wid = nextWid, !.at = None])
     /\ UNCHANGED <<now, pointsCurrent, spinDb>>

\* lines 564-570: Withdrawal.create lands in the collection
WithdrawCreate(p) ==
  LET me == procs[p]
  IN /\ me.op = "withdraw" /\ me.pc = "w_create"
     /\ withdrawals' = withdrawals @@ (nextWid :> NewWithdrawal(me.uid, me.amt, me.at))
     /\ nextWid' = nextWid + 1
     /\ Go(p, [me EXCEPT !.pc = "w_summary", !.wid = nextWid, !.at = None])
     /\ UNCHANGED <<now, userDb, spinDb>>

\* the summary payload of lines 310-319, 449-459 and 605-612
SummaryPayload(base, verified, pending, next) ==
  [base EXCEPT
     !.spent24 = ToFixed3(verified), !.pending24 = ToFixed3(pending),
     !.remainingVerified = ToFixed3(RemainingOf(verified)),
     !.remainingIncludingPending = ToFixed3(RemainingOf(verified + pending)),
     !.nextAllowedAt = next]

\* lines 576-614: the fresh summary after the create (read-only look-ups, merged
\* into one step); the window is still the one computed at line 508
WithdrawSummaryAfter(p) ==
  LET me == procs[p]
      finalVerified == VerifiedTotal(withdrawals, me.uid, me.since)
      finalPending == PendingTotal(withdrawals, me.uid, me.since)
      next == IF finalVerified + finalPending >= WITHDRAWAL_24H_CAP
              THEN NextAllowed(withdrawals, me.uid, me.since) ELSE None
  IN /\ me.op = "withdraw" /\ me.pc = "w_summary"
     /\ End(p, [SummaryPayload(ReplyOf(me, 200, "ok"), finalVerified, finalPending, next)
                  EXCEPT !.val = me.amt])
     /\ UNCHANGED <<now, userDb, ledgerDb, spinDb>>

(* ----------- POST /api/admin/withdrawals/:id/verify (admin.js) -------- *)
\* requireAdmin, then lines 531-536: Withdrawal.findById and the status check
VerifyFindW(p, a, wid) ==
  LET rsp(code, err) == Reply("verify", a, wid, None, code, err)
  IN /\ CanStart(p)
     /\ IF Role(a) # "admin" THEN End(p, rsp(403, "Admin only"))
        ELSE IF wid \notin DOMAIN withdrawals
          THEN End(p, rsp(404, "Withdrawal not found"))
        ELSE IF withdrawals[wid].status # "pending"
          THEN End(p, rsp(400, "Only pending withdrawals may be verified"))
        ELSE Go(p, [NewProc("verify", "v_user", a, wid, None) EXCEPT
                      !.owner = withdrawals[wid].userId,
                      !.amt = withdrawals[wid].amount])
     /\ UNCHANGED <<now, userDb, ledgerDb, spinDb>>

\* lines 539-543: User.findById(w.userId), then since = now - MS_24H
VerifyFindUser(p) ==
  LET me == procs[p]
  IN /\ me.op = "verify" /\ me.pc = "v_user"
     /\ Go(p, [me EXCEPT !.pc = "v_agg", !.bal = balanceDollar[me.owner],
                         !.since = now - MS_24H])
     /\ UNCHANGED <<now, userDb, ledgerDb, spinDb>>

\* line 563: Number(w.amount) > remaining
VerifyCapRejects(amount, verified24) == amount > RemainingOf(verified24)

\* for comparison: a debit of the whole amount whatever the balance
DeductWhole(balance, amount) == amount

\* line 584: deduct = Math.min(balance, Number(w.amount || 0))
Deduct(balance, amount) == Min(balance, amount)

\* lines 552-563 and 583-594: the verified total, the cap check, and on success
\* the new balance and the verification stamp that the two saves will write
VerifyAgg(p) ==
  LET me == procs[p]
      verified24 == VerifiedTotal(withdrawals, me.owner, me.since)
  IN /\ me.op = "verify" /\ me.pc = "v_agg"
     /\ IF VerifyCapRejects(me.amt, verified24)
        THEN Go(p, [me EXCEPT !.pc = "v_capNext", !.v24 = verified24, !.bal = 0])
        ELSE Go(p, [me EXCEPT !.pc = "v_save", !.since = None,
                              !.newBal = me.bal - Deduct(me.bal, me.amt),
                              !.at = now])
     /\ UNCHANGED <<now, userDb, ledgerDb, spinDb>>

\* lines 565-569: nextAllowedAt of the cap rejection
VerifyNextAllowed(ws, u, since, verified24) ==
  LET vs == {ws[i].verifiedAt : i \in VerifiedIn(ws, u, since)}
  IN IF vs # {} /\ verified24 >= WITHDRAWAL_24H_CAP THEN MinOf(vs) + MS_24H ELSE None

\* lines 565-579: oldest verified entry and the cap-exceeded reply
VerifyCapReject(p) ==
  LET me == procs[p]
  IN /\ me.op = "verify" /\ me.pc = "v_capNext"
     /\ End(p, [ReplyOf(me, 400, "Verifying would exceed cap") EXCEPT
                  !.remainingVerified = ToFixed3(RemainingOf(me.v24)),
                  !.spent24 = ToFixed3(me.v24), !.cap = WITHDRAWAL_24H_CAP,
                  !.val = me.amt,
                  !.nextAllowedAt =
                     VerifyNextAllowed(withdrawals, me.owner, me.since, me.v24)])
     /\ UNCHANGED <<now, userDb, ledgerDb, spinDb>>

\* line 606: the catch of the handler
VerifyFailed(me) == ReplyOf(me, 500, "Server error")
\* line 603
VerifyOk(me) == [ReplyOf(me, 200, "ok") EXCEPT !.val = me.newBal]

\* line 597, user.save(): writes balanceDollar when the handler changed it
VerifySaveUser(p) ==
  LET me == procs[p]
  IN /\ me.op = "verify" /\ me.pc \in {"v_save", "v_saveU", "v_saveU_failed"}
     /\ balanceDollar' = IF me.newBal # me.bal
                         THEN [balanceDollar EXCEPT ![me.owner] = me.newBal]
                         ELSE balanceDollar
     /\ IF me.pc = "v_save" THEN Go(p, [me EXCEPT !.pc = "v_saveW"])
        ELSE IF me.pc = "v_saveU" THEN End(p, VerifyOk(me))
        ELSE End(p, VerifyFailed(me))
     /\ UNCHANGED <<now, pointsCurrent, ledgerDb, spinDb>>

\* lines 588-594: the fields w.save() sets
Verified(w, at, admin) ==
  [w EXCEPT !.status = "verified", !.verifiedAt = at, !.verifiedBy = admin]

\* line 597, w.save(): updates the stored document by _id; when the document
\* is gone the save rejects and the handler answers 500
VerifySaveW(p) ==
  LET me == procs[p]
      there == me.wid \in DOMAIN withdrawals
  IN /\ me.op = "verify" /\ me.pc \in {"v_save", "v_saveW"}
     /\ withdrawals' = IF there
                       THEN [withdrawals EXCEPT
                               ![me.wid] = Verified(withdrawals[me.wid], me.at, me.uid)]
                       ELSE withdrawals
     /\ IF me.pc = "v_save"
          THEN Go(p, [me EXCEPT !.pc = IF there THEN "v_saveU" ELSE "v_saveU_failed"])
        ELSE IF there THEN End(p, VerifyOk(me))
        ELSE End(p, VerifyFailed(me))
     /\ UNCHANGED <<now, userDb, nextWid, spinDb>>

\* line 597, user.save() rejects: nothing is written to the user; Promise.all
\* rejects and the catch of line 604 answers 500, while w.save(), already
\* started, still runs when it has not run yet
VerifySaveUserThrows(p) ==
  LET me == procs[p]
  IN /\ me.op = "verify" /\ me.pc \in {"v_save", "v_saveU", "v_saveU_failed"}
     /\ IF me.pc = "v_save" THEN Go(p, [me EXCEPT !.pc = "v_saveW_failed"])
        ELSE End(p, VerifyFailed(me))
     /\ UNCHANGED <<now, userDb, ledgerDb, spinDb>>

\* line 597, w.save() rejects: the record keeps its stored status; user.save(),
\* already started, still runs when it has not run yet
VerifySaveWThrows(p) ==
  LET me == procs[p]
  IN /\ me.op = "verify" /\ me.pc \in {"v_save", "v_saveW", "v_saveW_failed"}
     /\ IF me.pc = "v_save" THEN Go(p, [me EXCEPT !.pc = "v_saveU_failed"])
        ELSE End(p, VerifyFailed(me))
     /\ UNCHANGED <<now, userDb, ledgerDb, spinDb>>

\* line 597, w.save() after user.save() rejected
VerifySaveWLate(p) ==
  LET me == procs[p]
      there == me.wid \in DOMAIN withdrawals
  IN /\ me.op = "verify" /\ me.pc = "v_saveW_failed"
     /\ withdrawals' = IF there
                       THEN [withdrawals EXCEPT
                               ![me.wid] = Verified(withdrawals[me.wid], me.at, me.uid)]
                       ELSE withdrawals
     /\ End(p, VerifyFailed(me))
     /\ UNCHANGED <<now, userDb, nextWid, spinDb>>

(* ----------- POST /api/admin/withdrawals/:id/reject (admin.js) -------- *)
\* requireAdmin, then lines 686-693
RejectFind(p, a, wid) ==
  LET rsp(code, err) == Reply("reject", a, wid, None, code, err)
  IN /\ CanStart(p)
     /\ IF Role(a) # "admin" THEN End(p, rsp(403, "Admin only"))
        ELSE IF wid \notin DOMAIN withdrawals THEN End(p, rsp(404, "Not found"))
        ELSE IF withdrawals[wid].status # "pending"
          THEN End(p, rsp(400, "Can only reject pending requests"))
        ELSE Go(p, [NewProc("reject", "x_save", a, wid, None) EXCEPT !.at = now])
     /\ UNCHANGED <<now, userDb, ledgerDb, spinDb>>

\* lines 690-693: the fields w.save() sets (the note text is not modelled)
Rejected(w, at, admin) ==
  [w EXCEPT !.status = "rejected", !.verifiedAt = at, !.verifiedBy = admin]

\* line 694
RejectSave(p) ==
  LET me == procs[p]
      there == me.wid \in DOMAIN withdrawals
  IN /\ me.op = "reject" /\ me.pc = "x_save"
     /\ withdrawals' = IF there
                       THEN [withdrawals EXCEPT
                               ![me.wid] = Rejected(withdrawals[me.wid], me.at, me.uid)]
                       ELSE withdrawals
     /\ IF there THEN End(p, ReplyOf(me, 200, "ok"))
        ELSE End(p, ReplyOf(me, 500, "Server error"))
     /\ UNCHANGED <<now, userDb, nextWid, spinDb>>

(* ------------- DELETE /api/account/withdraw/:id (account.js) ---------- *)
\* lines 346-359
DeleteFind(p, u, wid) ==
  LET rsp(code, err) == Reply("delete", u, wid, None, code, err)
  IN /\ CanStart(p)
     /\ IF wid \notin DOMAIN withdrawals THEN End(p, rsp(404, "Withdrawal not found"))
        ELSE IF withdrawals[wid].userId # u /\ Role(u) # "admin"
          THEN End(p, rsp(403, "Not allowed"))
        ELSE IF Role(u) # "admin" /\ withdrawals[wid].status # "pending"
          THEN End(p, rsp(400, "Only pending withdrawals may be removed by the user"))
        ELSE Go(p, NewProc("delete", "d_remove", u, wid, None))
     /\ UNCHANGED <<now, userDb, ledgerDb, spinDb>>

Without(ws, id) == [i \in DOMAIN ws \ {id} |-> ws[i]]

\* lines 362 and 387-389: Withdrawal.deleteOne({ _id: id }), then the window
DeleteRemove(p) ==
  LET me == procs[p]
  IN /\ me.op = "delete" /\ me.pc = "d_remove"
     /\ withdrawals' = Without(withdrawals, me.wid)
     /\ Go(p, [me EXCEPT !.pc = "d_summary", !.since = now - MS_24H])
     /\ UNCHANGED <<now, userDb, nextWid, spinDb>>

\* lines 392-462: the fresh summary of the requesting user (read-only look-ups,
\* merged into one step)
DeleteSummary(p) ==
  LET me == procs[p]
      verified24 == VerifiedTotal(withdrawals, me.uid, me.since)
      pending24 == PendingTotal(withdrawals, me.uid, me.since)
      next == IF verified24 + pending24 >= WITHDRAWAL_24H_CAP
                   \/ verified24 >= WITHDRAWAL_24H_CAP
              THEN NextAllowed(withdrawals, me.uid, me.since) ELSE None
  IN /\ me.op = "delete" /\ me.pc = "d_summary"
     /\ End(p, SummaryPayload(ReplyOf(me, 200, "ok"), verified24, pending24, next))
     /\ UNCHANGED <<now, userDb, ledgerDb, spinDb>>

(* ------------- GET /api/account/withdraw/summary (account.js) --------- *)
\* lines 252-305: the totals the first registered handler ends up with.  The
\* aggregations succeed, then line 275 evaluates the undeclared identifier
\* WITHDRAWAL_REQUEST_COUNT_LIMIT: the ReferenceError is caught at line 302,
\* which zeroes the totals; nextAllowedAt (lines 288-300) is never computed.
SummaryTotals(ws, u, since) ==
  IF WithdrawalRequestCountLimitDeclared
  THEN LET v == VerifiedTotal(ws, u, since)
           q == PendingTotal(ws, u, since)
       IN [verified |-> v, pending |-> q,
           next |-> IF v + q >= WITHDRAWAL_24H_CAP \/ v >= WITHDRAWAL_24H_CAP
                    THEN NextAllowed(ws, u, since) ELSE None]
  ELSE [verified |-> 0, pending |-> 0, next |-> None]

\* lines 199-336 (read-only, one step)
WithdrawSummary(p, u) ==
  LET t == SummaryTotals(withdrawals, u, now - MS_24H)
  IN /\ CanStart(p)
     /\ End(p, SummaryPayload(Reply("summary", u, 0, None, 200, "ok"),
                              t.verified, t.pending, t.next))
     /\ UNCHANGED <<now, userDb, ledgerDb, spinDb>>

\* lines 254-305: an aggregation of the summary rejects; the catch of line 302
\* zeroes the totals and the payload is sent as a success
WithdrawSummaryThrows(p, u) ==
  /\ CanStart(p)
  /\ End(p, SummaryPayload(Reply("summary", u, 0, None, 200, "ok"), 0, 0, None))
  /\ UNCHANGED <<now, userDb, ledgerDb, spinDb>>

(* ---------------- POST /api/account/convert (account.js) -------------- *)
\* lines 134-139: convertPoints defaults to all points and is clamped to them
ConvertPoints(arg, havePoints) ==
  IF arg = None THEN havePoints ELSE Min(arg, havePoints)

\* for comparison: a credit rounded up to whole cents
AddDollarInCents(points) ==
  ((points * POINT_TO_USD + 9999) \div 10000) * 10000

\* line 143: addDollar = convertPoints * POINT_TO_USD (an exact number of
\* micro-dollars after the toFixed(6) of line 145)
AddDollar(points) == points * POINT_TO_USD

\* lines 126-144: validate, load the user, compute the two new balances
ConvertLoad(p, u, arg) ==
  LET havePoints == pointsCurrent[u]
      balance == balanceDollar[u]
      convertPoints == ConvertPoints(arg, havePoints)
      rsp(code, err) == Reply("convert", u, 0, arg, code, err)
  IN /\ CanStart(p)
     /\ IF arg # None /\ arg < 0 THEN End(p, rsp(400, "Invalid points"))
        ELSE IF convertPoints <= 0 THEN End(p, rsp(400, "No points to convert"))
        ELSE Go(p, [NewProc("convert", "c_save", u, 0, arg) EXCEPT
                      !.amt = convertPoints,
                      !.newPts = Max(0, havePoints - convertPoints),
                      !.newBal = balance + AddDollar(convertPoints)])
     /\ UNCHANGED <<now, userDb, ledgerDb, spinDb>>

\* lines 145-148: user.save() writes the two fields the handler assigned; the
\* reply reports convertedPoints (delta) and addedDollar (added)
ConvertSave(p) ==
  LET me == procs[p]
  IN /\ me.op = "convert" /\ me.pc = "c_save"
     /\ pointsCurrent' = [pointsCurrent EXCEPT ![me.uid] = me.newPts]
     /\ balanceDollar' = [balanceDollar EXCEPT ![me.uid] = me.newBal]
     /\ End(p, [ReplyOf(me, 200, "ok") EXCEPT !.val = me.newBal, !.out = me.newPts,
                                              !.delta = me.amt,
                                              !.added = AddDollar(me.amt)])
     /\ UNCHANGED <<now, ledgerDb, spinDb>>

(* ------------- IEEE-754 double arithmetic of amount / 0.003 ----------- *)
\* Amounts and POINT_TO_USD are JavaScript Numbers (binary64).  A double is
\* m * 2^e with a 53-bit m; the model computes with such m exactly, as
\* natural numbers of any size written in limbs of base 1000, lowest first.
LIMB == 1000
\* 0.003 as a double is 6917529027641082 * 2^-61 (slightly above 0.003)
POINT_TO_USD_MANTISSA == <<82, 641, 27, 529, 917, 6>>
POINT_TO_USD_EXPONENT == -61
MANTISSA_BITS == 53

RECURSIVE BigOf(_)
BigOf(n) == IF n = 0 THEN <<>> ELSE <<n % LIMB>> \o BigOf(n \div LIMB)

\* x * c + carry, for c up to 2^20
RECURSIVE BigMulSmall(_, _, _)
BigMulSmall(x, c, carry) ==
  IF x = <<>> THEN BigOf(carry)
  ELSE LET t == Head(x) * c + carry
       IN <<t % LIMB>> \o BigMulSmall(Tail(x), c, t \div LIMB)

Pow2(s) == <<1, 2, 4, 8, 16, 32, 64, 128, 256, 512, 1024, 2048, 4096, 8192,
             16384, 32768, 65536, 131072, 262144, 524288, 1048576>>[s + 1]

\* x * 2^s
RECURSIVE BigShl(_, _)
BigShl(x, s) ==
  IF s = 0 THEN x
  ELSE IF s >= 20 THEN BigShl(BigMulSmall(x, Pow2(20), 0), s - 20)
  ELSE BigMulSmall(x, Pow2(s), 0)

RECURSIVE BigAdd(_, _, _)
BigAdd(x, y, carry) ==
  IF x = <<>> /\ y = <<>> THEN BigOf(carry)
  ELSE LET t == (IF x = <<>> THEN 0 ELSE Head(x))
                + (IF y = <<>> THEN 0 ELSE Head(y)) + carry
       IN <<t % LIMB>> \o BigAdd(IF x = <<>> THEN x ELSE Tail(x),
                                 IF y = <<>> THEN y ELSE Tail(y), t \div LIMB)

\* x >= y, both without leading zero limbs
RECURSIVE BigGeqFrom(_, _, _)
BigGeqFrom(x, y, i) ==
  IF i = 0 THEN TRUE
  ELSE IF x[i] # y[i] THEN x[i] > y[i]
  ELSE BigGeqFrom(x, y, i - 1)

BigGeq(x, y) ==
  IF Len(x) # Len(y) THEN Len(x) > Len(y) ELSE BigGeqFrom(x, y, Len(x))

\* quotient (limbs, highest first, leading zeros kept) and remainder of x / d,
\* taking the limbs of x from the highest, for d up to 10^6
RECURSIVE BigDivSmall(_, _, _, _, _)
BigDivSmall(x, d, i, quot, rem) ==
  IF i = 0 THEN [q |-> quot, r |-> rem]
  ELSE LET t == rem * LIMB + x[i]
       IN BigDivSmall(x, d, i - 1, <<t \div d>> \o quot, t % d)

RECURSIVE BigTrim(_)
BigTrim(x) ==
  IF x # <<>> /\ x[Len(x)] = 0 THEN BigTrim(SubSeq(x, 1, Len(x) - 1)) ELSE x

\* floor(log2(n)) for n >= 1
RECURSIVE Log2Floor(_)
Log2Floor(n) == IF n < 2 THEN 0 ELSE 1 + Log2Floor(n \div 2)

\* floor(log2(micro / 10^6)) for micro >= 1
RECURSIVE Log2Dollar(_)
Log2Dollar(micro) ==
  IF micro >= 2 * MICRO THEN 1 + Log2Dollar(micro \div 2)
  ELSE IF micro < MICRO THEN Log2Dollar(2 * micro) - 1
  ELSE 0

\* the double nearest to micro / 10^6 (ties to even), which is what
\* Number(x.toFixed(6)) and the parsed request body hold: m * 2^(-s)
DoubleOfMicro(micro) ==
  LET s == (MANTISSA_BITS - 1) - Log2Dollar(micro)
      x == BigShl(BigOf(micro), s)
      d == BigDivSmall(x, MICRO, Len(x), <<>>, 0)
      q == BigTrim(d.q)
      up == 2 * d.r > MICRO \/ (2 * d.r = MICRO /\ Head(q) % 2 = 1)
  IN [m |-> IF up THEN BigAdd(q, <<1>>, 0) ELSE q, s |-> s]

\* whether the double quotient a / 0.003 of an amount that is exactly k * 0.003
\* (k < 2^20) reaches k.  The exact quotient of the two doubles rounds to the
\* nearest double (ties to even, and k is even in its last bit): it is at
\* least k exactly when a >= b * (k - h), h being half the distance from k to
\* the double below it.
QuotientReaches(micro, k) ==
  LET a == DoubleOfMicro(micro)
      j == Log2Floor(k)
      T == IF k = Pow2(j) THEN MANTISSA_BITS + 1 - j ELSE MANTISSA_BITS - j
      b == POINT_TO_USD_MANTISSA
  IN BigGeq(BigAdd(BigShl(a.m, T - POINT_TO_USD_EXPONENT - a.s), b, 0),
            BigShl(BigMulSmall(b, k, 0), T))

(* -------------- POST /api/account/convert-back (account.js) ----------- *)
\* line 175: pointsToAdd = Math.floor(amount / POINT_TO_USD), in doubles.  Off
\* an exact multiple of 0.003 the quotient is at least 1/3000 away from an
\* integer, far more than the rounding error; on an exact multiple k * 0.003
\* the quotient is k or the double just below k
PointsFor(amount) ==
  LET k == amount \div POINT_TO_USD
  IN IF amount % POINT_TO_USD # 0 \/ k = 0 THEN k
     ELSE IF QuotientReaches(amount, k) THEN k ELSE k - 1

\* lines 158-179: validate, load the user, compute the two new balances
ConvertBackLoad(p, u, arg) ==
  LET balance == balanceDollar[u]
      amount == IF arg = None THEN balance ELSE Min(arg, balance)
      pointsToAdd == PointsFor(amount)
      usedDollars == pointsToAdd * POINT_TO_USD
      rsp(code, err) == Reply("convertBack", u, 0, arg, code, err)
  IN /\ CanStart(p)
     /\ IF arg # None /\ arg <= 0 THEN End(p, rsp(400, "Invalid amount"))
        ELSE IF amount <= 0 THEN End(p, rsp(400, "Insufficient balance"))
        ELSE IF pointsToAdd <= 0 THEN End(p, rsp(400, "Amount too small"))
        ELSE Go(p, [NewProc("convertBack", "b_save", u, 0, arg) EXCEPT
                      !.amt = pointsToAdd,
                      !.newBal = balance - usedDollars,
                      !.newPts = pointsCurrent[u] + pointsToAdd])
     /\ UNCHANGED <<now, userDb, ledgerDb, spinDb>>

\* lines 180-190: user.save() writes the two fields the handler assigned; the
\* reply reports addedPoints (delta) and deductedDollar (deducted)
ConvertBackSave(p) ==
  LET me == procs[p]
  IN /\ me.op = "convertBack" /\ me.pc = "b_save"
     /\ pointsCurrent' = [pointsCurrent EXCEPT ![me.uid] = me.newPts]
     /\ balanceDollar' = [balanceDollar EXCEPT ![me.uid] = me.newBal]
     /\ End(p, [ReplyOf(me, 200, "ok") EXCEPT !.val = me.newBal, !.out = me.newPts,
                                              !.delta = me.amt,
                                              !.deducted = me.amt * POINT_TO_USD])
     /\ UNCHANGED <<now, ledgerDb, spinDb>>

(* -------------------- spin mini-game (auth.js, 532-850) --------------- *)
\* for comparison: a rolling window of 24 hours instead of the calendar day
startOfWindow(t) == t - HOURS_24

\* lines 550-554: setUTCHours(0,0,0,0)
startOfDay(t) == t - (t % HOURS_24)

\* Math.round(bet * num / den) for a non-negative bet
RoundMul(bet, num, den) == (2 * bet * num + den) \div (2 * den)

\* the values of an array
Range(s) == {s[i] : i \in DOMAIN s}

\* Array.from(new Set(list)): the first occurrence of every value, in order
RECURSIVE Dedup(_)
Dedup(s) ==
  IF s = <<>> THEN s
  ELSE LET front == Dedup(SubSeq(s, 1, Len(s) - 1))
           last == s[Len(s)]
       IN IF last \in Range(front) THEN front ELSE Append(front, last)

\* for comparison: an array left in the order of its construction
SortSkipped(s) == s

\* .sort((a,b)=>a-b)
RECURSIVE SortAsc(_)
SortAsc(s) ==
  IF s = <<>> THEN s
  ELSE LET front == SortAsc(SubSeq(s, 1, Len(s) - 1))
           last == s[Len(s)]
           k == Cardinality({i \in DOMAIN front : front[i] <= last})
       IN SubSeq(front, 1, k) \o <<last>> \o SubSeq(front, k + 1, Len(front))

\* lines 628-646: the prize tiers of a wager
getPresetOptionsServer(b) ==
  LET bet == Max(1, b)
  IN IF bet >= 9 /\ bet <= 11 THEN <<0, 3, 5, 7, 8, 10, 15, 20, 50, 80, 100>>
     ELSE IF bet >= 18 /\ bet <= 22
       THEN <<0, 5, 10, 14, 17, 20, 40, 80, 100, 150, 200>>
     ELSE IF bet >= 28 /\ bet <= 32
       THEN <<0, 5, 10, 15, 20, 25, 30, 40, 60, 100, 150, 300>>
     ELSE IF bet >= 65 /\ bet <= 75
       THEN <<10, 15, 30, 40, 55, 70, 80, 120, 200, 250, 700>>
     ELSE IF bet < 50
       THEN LET small == <<0, 3, 5, Max(5, RoundMul(bet, 6, 10)),
                           RoundMul(bet, 85, 100)>>
                core == <<RoundMul(bet, 5, 10), RoundMul(bet, 75, 100), bet>>
                big == <<RoundMul(bet, 2, 1), RoundMul(bet, 4, 1),
                         RoundMul(bet, 8, 1)>>
            IN SortAsc(Dedup(small \o core \o big))
     ELSE LET near == <<RoundMul(bet, 2, 10), RoundMul(bet, 5, 10),
                        RoundMul(bet, 8, 10)>>
              core == <<RoundMul(bet, 1, 1), RoundMul(bet, 15, 10),
                        RoundMul(bet, 2, 1)>>
              big == <<RoundMul(bet, 3, 1), RoundMul(bet, 5, 1),
                       RoundMul(bet, 75, 10)>>
          IN SortAsc(Dedup(<<0, 5>> \o near \o core \o big))

(* ---- genOutcomeWeights (auth.js, 647-739) in fixed point ------------- *)
\* a percentage is held in units of 0.0001 percent, a score and a logarithm
\* in units of 0.0001, a weight in units of 0.0001
PERCENT == 10000
SCORE == 10000
\* binary digits of the fractional part of a logarithm
LOG_BITS == 14

RECURSIVE BigToNat(_)
BigToNat(x) == IF x = <<>> THEN 0 ELSE Head(x) + LIMB * BigToNat(Tail(x))

\* floor(a * b / c) for b up to 2^20 and c up to 2 * 10^6
MulDiv(a, b, c) ==
  LET x == BigMulSmall(BigOf(a), b, 0)
  IN BigToNat(BigTrim(BigDivSmall(x, c, Len(x), <<>>, 0).q))

RECURSIVE SumOver(_, _)
SumOver(f, S) ==
  IF S = {} THEN 0
  ELSE LET v == CHOOSE x \in S : TRUE IN f[v] + SumOver(f, S \ {v})

\* the fractional binary digits of log10(y / SCORE), 1 <= y / SCORE < 10,
\* by repeated squaring; the result counts units of 2^-LOG_BITS
RECURSIVE Log10Frac(_, _)
Log10Frac(y, bits) ==
  IF bits = 0 THEN 0
  ELSE LET sq == MulDiv(y, y, SCORE)
       IN IF sq >= 10 * SCORE
          THEN Pow2(bits - 1) + Log10Frac(sq \div 10, bits - 1)
          ELSE Log10Frac(sq, bits - 1)

\* Math.log10(n) for a whole n >= 1, in units of 1 / SCORE
RECURSIVE Log10Scaled(_, _)
Log10Scaled(n, den) ==
  IF n >= 10 * den THEN SCORE + Log10Scaled(n, den * 10)
  ELSE (Log10Frac((n * SCORE) \div den, LOG_BITS) * SCORE) \div Pow2(LOG_BITS)

\* lines 656-657
templates ==
  (10 :> ((0 :> 102600) @@ (3 :> 102600) @@ (5 :> 102600) @@ (7 :> 205300)
          @@ (8 :> 256600) @@ (10 :> 154000) @@ (15 :> 31800) @@ (20 :> 21200)
          @@ (50 :> 16900) @@ (80 :> 5100) @@ (100 :> 1000)))
  @@ (20 :> ((0 :> 200000) @@ (5 :> 600000) @@ (20 :> 100000) @@ (30 :> 32000)
             @@ (40 :> 30000) @@ (60 :> 28000) @@ (100 :> 15000)
             @@ (150 :> 7000) @@ (180 :> 4000) @@ (200 :> 1000)))

\* for comparison: percentages left as they are before the final scaling
ScaleSkipped(pct, sum) == pct

\* lines 733-735 (and 666-669): percents[v] * (100 / sum)
ScaleTo100(pct, sum) == MulDiv(pct, 100 * PERCENT, sum)

\* lines 660-670 and 671-681: the template of a wager near 10 or near 20
TemplatePercents(raw, all, percents) ==
  LET present == DOMAIN raw \cap Range(all)
      usedSum == SumOver(raw, present)
      scaled == usedSum > 0 /\ (usedSum - 100 * PERCENT > 1
                                \/ 100 * PERCENT - usedSum > 1)
  IN [v \in DOMAIN percents |->
        IF v \notin present THEN percents[v]
        ELSE IF scaled THEN ScaleTo100(raw[v], usedSum) ELSE raw[v]]

\* lines 701-706: the score of a tier
TierScore(v, bet) ==
  LET dist == Max(1, IF v >= bet THEN v - bet ELSE bet - v)
      boost == IF v >= bet THEN (125 * SCORE) \div 100 ELSE SCORE
  IN (boost * SCORE) \div (SCORE + Log10Scaled(1 + dist, 1))

\* lines 683-711: the generic distribution
GenericPercents(bet, all, percents) ==
  LET S == Range(all)
      topPrize == all[Len(all)]
      zero == IF bet <= 10 THEN 20 * PERCENT ELSE IF bet <= 20 THEN 3 * PERCENT
              ELSE IF bet < 50 THEN PERCENT ELSE PERCENT \div 2
      five == IF bet <= 10 THEN 60 * PERCENT ELSE IF bet <= 20 THEN 6 * PERCENT
              ELSE IF bet < 50 THEN PERCENT ELSE PERCENT \div 2
      top == Max(PERCENT \div 100, 
                       (TOP_PRIZE_BASE_PROB * 100 * PERCENT) \div SCORE)
      fixed == [v \in S |-> IF v = topPrize THEN top
                            ELSE IF v = 0 THEN zero
                            ELSE IF v = 5 THEN five ELSE percents[v]]
      rest == S \ {0, 5, topPrize}
      scores == [v \in rest |-> TierScore(v, bet)]
      total == SumOver(scores, rest)
      totalScore == IF total = 0 THEN SCORE ELSE total
      used == SumOver(fixed, S \cap {0, 5, topPrize})
      remaining == Max(1, 100 * PERCENT - used)
  IN [v \in S |-> IF v \in rest
                  THEN Max(PERCENT \div 100, MulDiv(remaining, scores[v], totalScore))
                  ELSE fixed[v]]

\* lines 715-718: the caps on tiers 0 and 5 of a wager above 10
CapLosers(bet, percents) ==
  [v \in DOMAIN percents |->
     IF bet > 10 /\ v \in {0, 5}
     THEN Min(IF percents[v] = 0 THEN PERCENT \div 100 ELSE percents[v], PERCENT)
     ELSE percents[v]]

\* lines 719-729: tiers below 20 of a wager of 50 or more share one percent
CapSmalls(bet, percents) ==
  LET smalls == {v \in DOMAIN percents : v < 20}
      totalSmalls == SumOver(percents, smalls)
  IN IF bet >= 50 /\ totalSmalls > PERCENT
     THEN [v \in DOMAIN percents |->
             IF v \in smalls THEN MulDiv(percents[v], PERCENT, totalSmalls)
             ELSE percents[v]]
     ELSE percents

\* lines 647-739
genOutcomeWeights(b) ==
  LET bet == Max(1, b)
      all == getPresetOptionsServer(bet)
      S == Range(all)
      start == [v \in S |-> PERCENT \div 100]
      shaped == IF bet >= 9 /\ bet <= 11
                THEN TemplatePercents(templates[10], all, start)
                ELSE IF bet >= 18 /\ bet <= 22
                THEN TemplatePercents(templates[20], all, start)
                ELSE GenericPercents(bet, all, start)
      capped == CapSmalls(bet, CapLosers(bet, shaped))
      floored == [v \in S |-> Max(PERCENT \div 100, capped[v])]
      total == SumOver(floored, S)
      sum == IF total = 0 THEN PERCENT ELSE total
      percents == [v \in S |-> ScaleTo100(floored[v], sum)]
  IN [options |-> all, percents |-> percents,
      weights |-> [i \in DOMAIN all |-> Max(1, percents[all[i]] * 10)]]

\* the distribution of every wager the handler lets through (line 805)
OutcomeWeights == [b \in MIN_BET..MAX_BET_SERVER |-> genOutcomeWeights(b)]

\* Math.random() is a multiple of 1 / RANDOM_GRID below 1
RANDOM_GRID == 2000

RECURSIVE SumSeq(_)
SumSeq(s) == IF s = <<>> THEN 0 ELSE Head(s) + SumSeq(Tail(s))

\* lines 621-624: the position (from 1) at which the loop over the weights
\* returns, the last one when it falls through
RECURSIVE PickedAt(_, _, _, _)
PickedAt(weights, n, r, i) ==
  IF i > n THEN n
  ELSE IF r - Max(0, weights[i]) <= 0 THEN i
  ELSE PickedAt(weights, n, r - Max(0, weights[i]), i + 1)

\* the position of lines 613-625, random being Math.random() * RANDOM_GRID
PickedPosition(items, weights, random) ==
  LET n == Min(Len(items), Len(weights))
      sum == SumSeq([i \in 1..n |-> Max(0, weights[i])])
  IN IF sum <= 0 THEN (random * n) \div RANDOM_GRID + 1
     ELSE PickedAt(weights, n, MulDiv(sum, random, RANDOM_GRID), 1)

\* for comparison: the index of the drawn item instead of the item
weightedPickIndex(items, weights, random) ==
  IF items = <<>> THEN None ELSE PickedPosition(items, weights, random) - 1

\* lines 613-625
weightedPick(items, weights, random) ==
  IF items = <<>> THEN None ELSE items[PickedPosition(items, weights, random)]

\* lines 805-806: what weightedPick returns for each wager the handler lets
\* through, Math.random() * RANDOM_GRID taking the values D
Outcomes(D) ==
  [b \in MIN_BET..MAX_BET_SERVER |->
     {weightedPick(OutcomeWeights[b].options, OutcomeWeights[b].weights, random) :
        random \in D}]

\* for comparison: the payout credited without taking the wager
SpinDeltaGross(bet, outcome) == outcome

\* line 806
SpinDelta(bet, outcome) == outcome - bet

\* line 779-781: bet = Math.floor(Number(req.body.bet || 0)), the body's bet
\* given in tenths
FloorBet(betRaw) == betRaw \div 10

\* spins of a user created at or after since (lines 792, 746)
SpinsSince(ss, u, since) ==
  {i \in DOMAIN ss : ss[i].userId = u /\ ss[i].createdAt >= since}

\* spin requests that may still create a record
Spinning == {q \in Procs : procs[q].op = "spin"}

\* for comparison: the wager checks left out, straight on to the quota check
SpinCheckBetSkipped(p, rec) == Go(p, [rec EXCEPT !.pc = "s_count"])

\* lines 783-788: the wager checks; then on to the quota check
SpinCheckBet(p, rec) ==
  IF rec.arg < MIN_BET THEN End(p, ReplyOf(rec, 400, "Invalid bet"))
  ELSE IF rec.arg > MAX_BET_SERVER THEN End(p, ReplyOf(rec, 400, "Maximum bet"))
  ELSE Go(p, [rec EXCEPT !.pc = "s_count"])

\* line 775: ctrl.reason || 'No reason provided'
ReasonShown(reason) == IF reason = "" THEN "No reason provided" ELSE reason

\* lines 559 and 773-788: SpinControl.findOne(), the kill switch, the wager
SpinCtrl(p, u, betRaw) ==
  LET rec == NewProc("spin", "s_ctrl", u, 0, FloorBet(betRaw))
  IN /\ CanStart(p)
     /\ IF spinControls = <<>> THEN Go(p, [rec EXCEPT !.pc = "s_ctrlCreate"])
        ELSE IF spinControls[1].disabled
          THEN End(p, [ReplyOf(rec, 403, "Spins are disabled by admin") EXCEPT
                         !.reason = ReasonShown(spinControls[1].reason)])
        ELSE SpinCheckBet(p, rec)
     /\ UNCHANGED <<now, userDb, ledgerDb, spinDb>>

\* the document of line 561
NewSpinControl == [disabled |-> FALSE, reason |-> "", updatedBy |-> "none"]

\* lines 561-562: SpinControl.create when findOne found none, then 774-788
SpinCtrlCreate(p) ==
  LET me == procs[p]
  IN /\ me.op = "spin" /\ me.pc = "s_ctrlCreate"
     /\ spinControls' = Append(spinControls, NewSpinControl)
     /\ SpinCheckBet(p, me)
     /\ UNCHANGED <<now, userDb, ledgerDb, spins, nextSid>>

\* lines 791-795: the daily quota
SpinCount(p) ==
  LET me == procs[p]
      spinsToday == Cardinality(SpinsSince(spins, me.uid, startOfDay(now)))
  IN /\ me.op = "spin" /\ me.pc = "s_count"
     /\ IF spinsToday >= DAILY_LIMIT
        THEN End(p, ReplyOf(me, 429, "Daily spin limit reached"))
        ELSE Go(p, [me EXCEPT !.pc = "s_load"])
     /\ UNCHANGED <<now, userDb, ledgerDb, spinDb>>

\* lines 798-806: load the user, check the balance, draw the outcome
\* O[bet] holds the outcomes of line 806 for the values of Math.random()
\* that are followed
SpinLoad(p, O) ==
  LET me == procs[p]
      currentPoints == pointsCurrent[me.uid]
  IN /\ me.op = "spin" /\ me.pc = "s_load"
     /\ IF me.arg > currentPoints
        THEN End(p, ReplyOf(me, 400, "Insufficient points."))
        ELSE \E outcome \in O[me.arg] :
               Go(p, [me EXCEPT !.pc = "s_inc", !.pts = currentPoints,
                                !.out = outcome])
     /\ UNCHANGED <<now, userDb, ledgerDb, spinDb>>

\* line 809: findByIdAndUpdate(uid, { $inc: { pointsCurrent: delta } }, { new: true })
SpinInc(p) ==
  LET me == procs[p]
      updated == pointsCurrent[me.uid] + SpinDelta(me.arg, me.out)
  IN /\ me.op = "spin" /\ me.pc = "s_inc"
     /\ pointsCurrent' = [pointsCurrent EXCEPT ![me.uid] = updated]
     /\ Go(p, [me EXCEPT !.pc = "s_create", !.newPts = updated, !.pts = 0])
     /\ UNCHANGED <<now, balanceDollar, ledgerDb, spinDb>>

\* line 815
NewSpin(u, bet, outcome, at) ==
  [userId |-> u, bet |-> bet, won |-> outcome, createdAt |-> at]

\* lines 815-845: Spin.create and the reply (wid carries the spinId)
SpinCreate(p) ==
  LET me == procs[p]
  IN /\ me.op = "spin" /\ me.pc = "s_create"
     /\ spins' = spins @@ (nextSid :> NewSpin(me.uid, me.arg, me.out, now))
     /\ nextSid' = nextSid + 1
     /\ End(p, [ReplyOf(me, 200, "ok") EXCEPT
                  !.wid = nextSid, !.out = me.out,
                  !.delta = SpinDelta(me.arg, me.out), !.val = me.newPts,
                  !.options = OutcomeWeights[me.arg].options,
                  !.weights = OutcomeWeights[me.arg].weights,
                  !.percents = OutcomeWeights[me.arg].percents])
     /\ UNCHANGED <<now, userDb, ledgerDb, spinControls>>

\* lines 568-571: GET /spin-control, getSpinControlDoc's findOne() (line 559)
\* and the reply when a document is found
GetSpinControl(p, u) ==
  LET rec == NewProc("getControl", "g_create", u, 0, None)
  IN /\ CanStart(p)
     /\ IF spinControls = <<>> THEN Go(p, rec)
        ELSE End(p, [ReplyOf(rec, 200, "ok") EXCEPT
                       !.disabled = spinControls[1].disabled,
                       !.reason = spinControls[1].reason])
     /\ UNCHANGED <<now, userDb, ledgerDb, spinDb>>

\* lines 561-562 and 571: SpinControl.create when findOne found none
GetSpinControlCreate(p) ==
  LET me == procs[p]
  IN /\ me.op = "getControl" /\ me.pc = "g_create"
     /\ spinControls' = Append(spinControls, NewSpinControl)
     /\ End(p, [ReplyOf(me, 200, "ok") EXCEPT
                  !.disabled = NewSpinControl.disabled,
                  !.reason = NewSpinControl.reason])
     /\ UNCHANGED <<now, userDb, ledgerDb, spins, nextSid>>

\* lines 579-595: POST /spin-control.  findOneAndUpdate({}, ..., { upsert:
\* true }) updates the first document in natural order, the one findOne()
\* reads; when the collection holds none it inserts one, and nothing makes the
\* look-up and the insertion one step against other insertions (no unique
\* index covers the empty filter).
SetSpinControl(p, a, disabled, reason) ==
  LET doc == [disabled |-> disabled, reason |-> reason, updatedBy |-> a]
      rec == [NewProc("setControl", "c_insert", a, 0, None) EXCEPT
                !.disabled = disabled, !.reason = reason]
  IN /\ CanStart(p)
     /\ IF Role(a) # "admin"
        THEN /\ End(p, Reply("setControl", a, 0, None, 403, "Not authorized"))
             /\ UNCHANGED spinControls
        ELSE IF spinControls = <<>>
        THEN /\ Go(p, rec)
             /\ UNCHANGED spinControls
        ELSE /\ spinControls' = [spinControls EXCEPT ![1] = doc]
             /\ End(p, [Reply("setControl", a, 0, None, 200, "ok") EXCEPT
                          !.disabled = disabled, !.reason = reason])
     /\ UNCHANGED <<now, userDb, ledgerDb, spins, nextSid>>

\* lines 590-609: the insertion of the upsert, the reply
SetSpinControlInsert(p) ==
  LET me == procs[p]
      doc == [disabled |-> me.disabled, reason |-> me.reason,
              updatedBy |-> me.uid]
  IN /\ me.op = "setControl" /\ me.pc = "c_insert"
     /\ spinControls' = Append(spinControls, doc)
     /\ End(p, [ReplyOf(me, 200, "ok") EXCEPT
                  !.disabled = me.disabled, !.reason = me.reason])
     /\ UNCHANGED <<now, userDb, ledgerDb, spins, nextSid>>

\* lines 846-849: an await of the handler rejects (the store fails); the catch
\* answers 500 and nothing of that operation is written
SpinThrows(p) ==
  LET me == procs[p]
  IN /\ me.op = "spin"
     /\ me.pc \in {"s_ctrlCreate", "s_count", "s_load", "s_inc", "s_create"}
     /\ End(p, ReplyOf(me, 500, "Server error"))
     /\ UNCHANGED <<now, userDb, ledgerDb, spinDb>>

(* ------------------------------- clock -------------------------------- *)
Tick ==
  /\ now + TickHours <= MaxTime
  /\ now' = now + TickHours
  /\ reply' = NoReply
  /\ UNCHANGED <<userDb, ledgerDb, spinDb, procs>>

(* ------------------ the withdrawal accounting engine ------------------ *)
\* request inputs: amount omitted, invalid, the minimum, and an amount that
\* two requests cannot both fit under the cap
WithdrawArgs(u) ==
  IF Role(u) = "admin" THEN {None} ELSE {None, 0, USD(30), USD(70)}

InitBase ==
  /\ now = 0
  /\ withdrawals = <<>>
  /\ nextWid = 1
  /\ spins = <<>>
  /\ nextSid = 1
  /\ spinControls = <<>>
  /\ procs = [p \in Procs |-> IdleProc]
  /\ reply = NoReply

Init ==
  /\ InitBase
  /\ pointsCurrent = [u \in Users |-> 0]
  /\ balanceDollar = [u \in Users |-> IF Role(u) = "admin" THEN USD(90) ELSE USD(120)]

KnownWids == 1..(nextWid - 1)

\* The steps of the withdrawal handlers.  Requests start in the slots P;
\* withdrawal requests come from the users R while fewer than L records exist
\* or are being created, admin actions from A, deletes from D.
WithdrawStep(P, R, L) ==
  \/ \E p \in P, u \in R, phone \in BOOLEAN :
        /\ (nextWid - 1) + Cardinality(Creating) < L
        /\ \E arg \in WithdrawArgs(u) : WithdrawLoadUser(p, u, arg, phone)
  \/ \E p \in Procs : WithdrawAggV(p)
  \/ \E p \in Procs : WithdrawAggP(p)
  \/ \E p \in Procs : WithdrawCapReject(p)
  \/ \E p \in Procs : WithdrawCreate(p)
  \/ \E p \in Procs : WithdrawSummaryAfter(p)

VerifyStep(P, A) ==
  \/ \E p \in P, a \in A, wid \in KnownWids : VerifyFindW(p, a, wid)
  \/ \E p \in Procs : VerifyFindUser(p)
  \/ \E p \in Procs : VerifyAgg(p)
  \/ \E p \in Procs : VerifyCapReject(p)
  \/ \E p \in Procs : VerifySaveUser(p)
  \/ \E p \in Procs : VerifySaveW(p)

RejectStep(P, A) ==
  \/ \E p \in P, a \in A, wid \in KnownWids : RejectFind(p, a, wid)
  \/ \E p \in Procs : RejectSave(p)

DeleteStep(P, D) ==
  \/ \E p \in P, u \in D, wid \in KnownWids : DeleteFind(p, u, wid)
  \/ \E p \in Procs : DeleteRemove(p)
  \/ \E p \in Procs : DeleteSummary(p)

LedgerStep(P, R, D, A, L) ==
  \/ WithdrawStep(P, R, L)
  \/ VerifyStep(P, A)
  \/ RejectStep(P, A)
  \/ DeleteStep(P, D)

\* requests handled one at a time
Next ==
  \/ LedgerStep({1}, Users, Users, Users, MaxWithdrawals)
  \/ \E u \in Users : WithdrawSummary(1, u)
  \/ Tick

Spec == Init /\ [][Next]_vars

\* requests interleaving at their awaits
NextRace ==
  \/ LedgerStep(Procs, {"u1"}, {"u1"}, Admins, MaxRaceWithdrawals)
  \/ Tick

SpecRace == Init /\ [][NextRace]_vars

(* ------------------------- the spin mini-game ------------------------- *)
\* wagers as sent (tenths): below the minimum, valid, above the maximum
SpinBets == {99, 109, 1010}

\* values of Math.random() * RANDOM_GRID that draw the lowest tier, the
\* break-even tier and the top prize of a wager of 10
SpinDraws == {0, 1700, 1999}
SpinOutcomes == Outcomes(SpinDraws)

\* one step of the spin handler, for requests of the users R in the slots P
\* with the wagers B and the outcomes O, while fewer than L spin records exist
\* or are being created
SpinStepOn(P, R, L, B, O) ==
  \/ \E p \in P, u \in R, betRaw \in B :
        /\ (nextSid - 1) + Cardinality(Spinning) < L
        /\ SpinCtrl(p, u, betRaw)
  \/ \E p \in Procs : SpinCtrlCreate(p)
  \/ \E p \in Procs : SpinCount(p)
  \/ \E p \in Procs : SpinLoad(p, O)
  \/ \E p \in Procs : SpinInc(p)
  \/ \E p \in Procs : SpinCreate(p)

SpinStep(P, R, L) == SpinStepOn(P, R, L, SpinBets, SpinOutcomes)

InitSpin ==
  /\ InitBase
  /\ pointsCurrent = [u \in Users |-> IF Role(u) = "admin" THEN 0 ELSE 20]
  /\ balanceDollar = [u \in Users |-> 0]

\* spin requests handled one at a time, the admin switching spins off and on
NextSpin ==
  \/ SpinStep({1}, Users \ Admins, MaxSpins)
  \/ \E a \in Users, disabled \in BOOLEAN :
        SetSpinControl(1, a, disabled, "maintenance")
  \/ SetSpinControlInsert(1)
  \/ Tick

SpecSpin == InitSpin /\ [][NextSpin]_vars

(* ------------------ balances under interleaved requests --------------- *)
\* conversion inputs: everything, and an invalid value
ConvertArgs == {None, -2}
ConvertBackArgs == {None, 0}

\* the steps of the two conversion handlers, for requests of the users R in
\* the slots P, with points from CA and amounts from BA
ConvertStepOn(P, R, CA, BA) ==
  \/ \E p \in P, u \in R, arg \in CA : ConvertLoad(p, u, arg)
  \/ \E p \in Procs : ConvertSave(p)
  \/ \E p \in P, u \in R, arg \in BA : ConvertBackLoad(p, u, arg)
  \/ \E p \in Procs : ConvertBackSave(p)

ConvertStep(P, R) == ConvertStepOn(P, R, ConvertArgs, ConvertBackArgs)

InitBal ==
  /\ InitBase
  /\ pointsCurrent = [u \in Users |-> IF Role(u) = "admin" THEN 0 ELSE 10]
  /\ balanceDollar = [u \in Users |-> IF Role(u) = "admin" THEN USD(150) ELSE USD(120)]

\* spins and conversions interleaving with each other and with one withdrawal
\* request or verification at a time (SpecRace interleaves those two)
NextBal ==
  \/ SpinStep(Procs, Users \ Admins, MaxBalSpins)
  \/ ConvertStep(Procs, Users \ Admins)
  \/ WithdrawStep({1}, Users, MaxBalWithdrawals)
  \/ VerifyStep({1}, Admins)

SpecBal == InitBal /\ [][NextBal]_vars

(* --------------------------- the converter ---------------------------- *)
\* points asked for: everything, invalid, nothing, a few, many
ConvPoints == {None, -2, 0, 3, 1000}
\* amounts asked for, in micro-dollars: everything, invalid, less than a
\* point, 3 points' worth, a little more than 3 points' worth, 1000 points' worth
ConvAmounts == {None, 0, 2000, 9000, 10000, USD(3)}
\* balances the user starts from
ConvStartPoints == {0, 3, 5, 1000}
ConvStartBalances == {0, 1000}

InitConv ==
  /\ InitBase
  /\ \E pts \in ConvStartPoints, bal \in ConvStartBalances :
        /\ pointsCurrent = [u \in Users |-> IF Role(u) = "admin" THEN 0 ELSE pts]
        /\ balanceDollar = [u \in Users |-> IF Role(u) = "admin" THEN 0 ELSE bal]

\* the client sends back the amount the last conversion reported as added
\* (data.addedDollar of line 148)
ConvertBackAdded(p, u) ==
  /\ reply.op = "convert" /\ reply.code = 200 /\ reply.uid = u
  /\ ConvertBackLoad(p, u, reply.added)

\* conversions in both directions, one request at a time
NextConv ==
  \/ ConvertStepOn({1}, Users \ Admins, ConvPoints, ConvAmounts)
  \/ \E u \in Users \ Admins : ConvertBackAdded(1, u)

SpecConv == InitConv /\ [][NextConv]_vars

(* ------------------- the draw over the whole range -------------------- *)
MaxDrawSpins == 1      \* spin records ever created, every wager and draw

\* wagers as sent (tenths): 9.5, 10.5, ..., 100.5, 101.5
DrawBets == {10 * b + 5 : b \in (MIN_BET - 1)..(MAX_BET_SERVER + 1)}

\* every value of Math.random() * RANDOM_GRID
DrawRandoms == 0..(RANDOM_GRID - 1)
DrawOutcomes == Outcomes(DrawRandoms)

InitDraw ==
  /\ InitBase
  /\ pointsCurrent = [u \in Users |-> IF Role(u) = "admin" THEN 0
                                      ELSE MAX_BET_SERVER]
  /\ balanceDollar = [u \in Users |-> 0]

\* one spin of any wager with any draw
NextDraw ==
  SpinStepOn({1}, Users \ Admins, MaxDrawSpins, DrawBets, DrawOutcomes)

SpecDraw == InitDraw /\ [][NextDraw]_vars

(* ------------------- the kill switch under overlap -------------------- *)
MaxCtrlSpins == 2      \* spin records ever created, spins and Sets interleaving

\* reasons an admin sends: none, some
CtrlReasons == {"", "maintenance"}
\* the wager of every spin here (tenths), and its draw
CtrlBets == {109}
CtrlDraws == {0}
CtrlOutcomes == Outcomes(CtrlDraws)

InitCtrl ==
  /\ InitBase
  /\ pointsCurrent = [u \in Users |-> IF Role(u) = "admin" THEN 0 ELSE 20]
  /\ balanceDollar = [u \in Users |-> 0]

\* spin requests and Set spin control requests, interleaving at their awaits
NextCtrl ==
  \/ SpinStepOn(Procs, Users \ Admins, MaxCtrlSpins, CtrlBets, CtrlOutcomes)
  \/ \E p \in Procs, a \in Users, disabled \in BOOLEAN, reason \in CtrlReasons :
        SetSpinControl(p, a, disabled, reason)
  \/ \E p \in Procs : SetSpinControlInsert(p)

SpecCtrl == InitCtrl /\ [][NextCtrl]_vars

\* the same with Get spin control requests
NextSingleton ==
  \/ NextCtrl
  \/ \E p \in Procs, u \in Users : GetSpinControl(p, u)
  \/ \E p \in Procs : GetSpinControlCreate(p)

SpecSingleton == InitCtrl /\ [][NextSingleton]_vars

(* ------------------- overlapping spins of one user ------------------- *)
MaxQuotaSpins == 6     \* spin records ever created, spins interleaving

\* the draw of every spin here: the break-even tier, the balance stays
QuotaDraws == {1700}
QuotaOutcomes == Outcomes(QuotaDraws)

\* spin requests interleaving at their awaits, the clock advancing
NextQuota ==
  \/ SpinStepOn(Procs, Users \ Admins, MaxQuotaSpins, CtrlBets, QuotaOutcomes)
  \/ Tick

SpecQuota == InitCtrl /\ [][NextQuota]_vars

(* ----------------- the spin handler on a failing store ---------------- *)
MaxFailSpins == 3      \* spin records ever created, store operations may fail

\* values of Math.random() * RANDOM_GRID that draw the lowest tier and the
\* break-even tier of a wager of 10: the balance never grows
FailDraws == {0, 1700}
FailOutcomes == Outcomes(FailDraws)

\* spin requests handled one at a time, any of their awaits may reject
NextSpinFail ==
  \/ SpinStepOn({1}, Users \ Admins, MaxFailSpins, SpinBets, FailOutcomes)
  \/ SpinThrows(1)
  \/ Tick

SpecSpinFail == InitSpin /\ [][NextSpinFail]_vars

(* --------------- the verification on a failing store ------------------ *)
MaxFailWithdrawals == 2 \* withdrawal records ever created, saves may fail

\* the saves of a verification, each of which may reject
VerifyThrowStep ==
  \/ \E p \in Procs : VerifySaveUserThrows(p)
  \/ \E p \in Procs : VerifySaveWThrows(p)
  \/ \E p \in Procs : VerifySaveWLate(p)

\* withdrawal requests and verifications handled one at a time
NextVerifyFail ==
  \/ WithdrawStep({1}, Users, MaxFailWithdrawals)
  \/ VerifyStep({1}, Admins)
  \/ VerifyThrowStep

SpecVerifyFail == Init /\ [][NextVerifyFail]_vars

(* --------------- overlapping verifications of a record --------------- *)
MaxDebitWithdrawals == 2 \* withdrawal records ever created, verifies interleaving

\* withdrawal requests one at a time, verifications interleaving at their
\* awaits; no record is rejected or deleted
NextDebit ==
  \/ WithdrawStep({1}, Users \ Admins, MaxDebitWithdrawals)
  \/ VerifyStep(Procs, Admins)

SpecDebit == Init /\ [][NextDebit]_vars

(* ------------- the ledger aggregations on a failing store ------------- *)
\* withdrawal requests and summaries handled one at a time, their
\* aggregations may reject
NextAggFail ==
  \/ WithdrawStep({1}, Users, MaxFailWithdrawals)
  \/ WithdrawAggThrows(1)
  \/ \E u \in Users : WithdrawSummary(1, u)
  \/ \E u \in Users : WithdrawSummaryThrows(1, u)
  \/ Tick

SpecAggFail == Init /\ [][NextAggFail]_vars

(* ====================================================================== *)
(*                        properties of the ledger                        *)
(* ====================================================================== *)
\* the sum of the amounts of u's records in status st whose date (verifiedAt
\* for verified records, requestedAt for pending ones) is at or after since
LedgerSum(u, st, since) ==
  SumAmount(withdrawals,
            {i \in DOMAIN withdrawals :
               /\ withdrawals[i].userId = u
               /\ withdrawals[i].status = st
               /\ IF st = "verified" THEN withdrawals[i].verifiedAt >= since
                                     ELSE withdrawals[i].requestedAt >= since})

\* handler steps, recognised by the position the request leaves and enters
Moves(p, op, from, to) ==
  procs[p].op = op /\ procs[p].pc \in from /\ procs'[p].pc \in to
UserSaveStep(p) ==
  \/ Moves(p, "verify", {"v_save"}, {"v_saveW"})
  \/ Moves(p, "verify", {"v_saveU", "v_saveU_failed"}, {"idle"})
WSaveStep(p) ==
  \/ Moves(p, "verify", {"v_save"}, {"v_saveU", "v_saveU_failed"})
  \/ Moves(p, "verify", {"v_saveW"}, {"idle"})
\* a withdraw request arrives in slot p (it may be answered at once)
WithdrawArrives(p) ==
  /\ procs[p].pc = "idle"
  /\ procs'[p].op = "withdraw" \/ (procs' = procs /\ reply'.op = "withdraw")
  /\ \A q \in Procs : q < p => procs[q].pc # "idle"

(* ------------------------------- C1 ----------------------------------- *)
\* C1: for every user, in every reachable state, the verified amounts whose
\* verifiedAt lies within the trailing 24 hours sum to at most the cap, under
\* any interleaving of Request / Verify / Reject / Delete
C1_CapInvariant ==
  \A u \in Users : LedgerSum(u, "verified", now - HOURS_24) <= WITHDRAWAL_24H_CAP

(* ------------------------------- C5 ----------------------------------- *)
\* C5: a withdrawal record changes status at most once, from pending to
\* verified or to rejected; verified and rejected are terminal, under any
\* interleaving of Verify and Reject on the same record
C5_OneTransition ==
  [][\A i \in DOMAIN withdrawals \cap DOMAIN withdrawals' :
        withdrawals'[i].status # withdrawals[i].status
          => /\ withdrawals[i].status = "pending"
             /\ withdrawals'[i].status \in {"verified", "rejected"}]_vars

(* ------------------------------- C6 ----------------------------------- *)
\* C6: a successful Verify of a pending record debits min(current balance,
\* amount) from the owner's currency balance, stamps the record verified with
\* verifiedAt = now and verifiedBy = the acting admin, and changes no other
\* withdrawal record and no point balance
C6_VerifyEffect ==
  [][\A p \in Procs :
       LET me == procs[p]
           w == withdrawals[me.wid]
       IN /\ Moves(p, "verify", {"v_agg"}, {"v_save"}) =>
               /\ w.status = "pending"
               /\ procs'[p].at = now
               /\ <<userDb, ledgerDb>>' = <<userDb, ledgerDb>>
          /\ UserSaveStep(p) =>
               /\ balanceDollar' =
                    [balanceDollar EXCEPT ![w.userId] = @ - Min(@, w.amount)]
               /\ withdrawals' = withdrawals
               /\ pointsCurrent' = pointsCurrent
          /\ WSaveStep(p) =>
               /\ withdrawals' =
                    [withdrawals EXCEPT ![me.wid] =
                       [w EXCEPT !.status = "verified", !.verifiedAt = me.at,
                                 !.verifiedBy = me.uid]]
               /\ balanceDollar' = balanceDollar
               /\ pointsCurrent' = pointsCurrent
          /\ (procs[p].op = "verify" /\ reply'.op = "verify" /\ reply'.code = 200) =>
               /\ withdrawals'[me.wid].status = "verified"
               /\ reply'.val = balanceDollar'[w.userId]
               /\ UserSaveStep(p) \/ WSaveStep(p)]_vars

\* a Verify has succeeded on a record larger than the balance it found: the
\* balance is 0 and the record is verified
C6_Witness ==
  /\ reply.op = "verify" /\ reply.code = 200
  /\ withdrawals[reply.wid].status = "verified"
  /\ withdrawals[reply.wid].verifiedAt = now
  /\ withdrawals[reply.wid].verifiedBy = reply.uid
  /\ balanceDollar[withdrawals[reply.wid].userId] = 0
  /\ \E i \in DOMAIN withdrawals :
        /\ i # reply.wid
        /\ withdrawals[i].userId = withdrawals[reply.wid].userId
        /\ withdrawals[i].status = "verified"

(* ------------------------------- C7 ----------------------------------- *)
\* C7 as stated: a request (with a phone number) whose explicit amount is
\* greater than the user's balance is rejected with the insufficient-balance
\* error and creates no record
C7_OverBalanceRejected ==
  [][\A p \in Procs :
       (/\ WithdrawArrives(p)
        /\ reply'.err # "Phone required"
        /\ LET arg == IF procs'[p].op = "withdraw" THEN procs'[p].arg ELSE reply'.arg
               u == IF procs'[p].op = "withdraw" THEN procs'[p].uid ELSE reply'.uid
           IN arg # None /\ arg > 0 /\ arg > balanceDollar[u])
       => reply'.err = "Insufficient balance"]_vars

\* C7: a request whose explicit amount is greater than the balance is clamped
\* to the balance: it is rejected with the insufficient-balance error only
\* when the balance is not positive, with the minimum error when the balance is
\* below the minimum, and otherwise goes on for the whole balance, which is the
\* amount (to 3 decimals) of the record a successful request creates
C7_OverBalanceClamped ==
  [][\A p \in Procs :
       /\ (/\ WithdrawArrives(p)
           /\ reply'.err # "Phone required")
          => LET started == procs'[p].op = "withdraw"
                 arg == IF started THEN procs'[p].arg ELSE reply'.arg
                 u == IF started THEN procs'[p].uid ELSE reply'.uid
                 bal == balanceDollar[u]
             IN (arg # None /\ arg > 0 /\ arg > bal) =>
                  /\ bal <= 0 => ~started /\ reply'.err = "Insufficient balance"
                  /\ (0 < bal /\ bal < MIN_WITHDRAW_AMOUNT)
                       => ~started /\ reply'.err = "Minimum withdraw"
                  /\ bal >= MIN_WITHDRAW_AMOUNT => started /\ procs'[p].amt = bal
       /\ Moves(p, "withdraw", {"w_create"}, {"w_summary"})
          => /\ DOMAIN withdrawals' = DOMAIN withdrawals \cup {nextWid}
             /\ withdrawals'[nextWid].amount
                  = ((procs[p].amt + 500) \div 1000) * 1000
             /\ withdrawals'[nextWid].userId = procs[p].uid
             /\ withdrawals'[nextWid].status = "pending"]_vars

\* a request for more than the balance has been accepted: the record it
\* created is for the whole balance
C7_Witness ==
  /\ reply.op = "withdraw" /\ reply.code = 200
  /\ reply.arg # None /\ reply.arg > balanceDollar[reply.uid]
  /\ withdrawals[reply.wid].amount = balanceDollar[reply.uid]
  /\ withdrawals[reply.wid].status = "pending"

(* ------------------------------- C8 ----------------------------------- *)
\* C8: a non-admin request is accepted only if its amount is at most
\* cap - (verified total + pending total of the trailing 24 hours at request
\* time); otherwise it is rejected with the cap-exceeded reply carrying
\* remainingVerified, remainingIncludingPending, cap and nextAllowedAt, and no
\* record is created.  An admin's request skips the gate, but Verify enforces
\* the cap on every record, an admin's included
C8_RequestCapGate ==
  [][\A p \in Procs :
       LET me == procs[p]
           v == LedgerSum(me.uid, "verified", me.since)
           q == LedgerSum(me.uid, "pending", me.since)
       IN /\ (WithdrawArrives(p) /\ procs'[p].op = "withdraw")
               => procs'[p].since = now - HOURS_24
          /\ Moves(p, "withdraw", {"w_aggP"}, {"w_create", "w_capNext"}) =>
               /\ Role(me.uid) # "admin" =>
                    (procs'[p].pc = "w_create" <=> me.amt <= WITHDRAWAL_24H_CAP - (v + q))
               /\ Role(me.uid) = "admin" => procs'[p].pc = "w_create"
               /\ withdrawals' = withdrawals
          /\ Moves(p, "withdraw", {"w_capNext"}, {"idle"}) =>
               /\ reply'.code = 400 /\ reply'.err = "Request would exceed cap"
               /\ reply'.remainingVerified = Max(0, WITHDRAWAL_24H_CAP - v)
               /\ reply'.remainingIncludingPending = Max(0, WITHDRAWAL_24H_CAP - (v + q))
               /\ reply'.cap = WITHDRAWAL_24H_CAP
               /\ reply'.nextAllowedAt # None <=> v + q > 0
               /\ withdrawals' = withdrawals
          /\ Moves(p, "verify", {"v_user"}, {"v_agg"}) =>
               procs'[p].since = now - HOURS_24
          /\ Moves(p, "verify", {"v_agg"}, {"v_save", "v_capNext"}) =>
               LET vo == LedgerSum(me.owner, "verified", me.since)
               IN /\ procs'[p].pc = "v_save" <=> me.amt <= WITHDRAWAL_24H_CAP - vo
                  /\ <<userDb, ledgerDb>>' = <<userDb, ledgerDb>>
          /\ Moves(p, "verify", {"v_capNext"}, {"idle"}) =>
               /\ reply'.code = 400 /\ reply'.err = "Verifying would exceed cap"
               /\ <<userDb, ledgerDb>>' = <<userDb, ledgerDb>>]_vars

\* a user's request has just been rejected at the gate, while an admin holds
\* two pending records of the last 24 hours that together exceed the cap
C8_Witness ==
  /\ reply.op = "withdraw" /\ reply.err = "Request would exceed cap"
  /\ Role(reply.uid) # "admin"
  /\ \E a \in Admins : LedgerSum(a, "pending", now - HOURS_24) > WITHDRAWAL_24H_CAP

C10_SummaryTotals ==
  reply.op = "summary" =>
    LET v == LedgerSum(reply.uid, "verified", now - HOURS_24)
        q == LedgerSum(reply.uid, "pending", now - HOURS_24)
    IN /\ reply.spent24 = v
       /\ reply.pending24 = q
       /\ reply.remainingVerified = Max(0, WITHDRAWAL_24H_CAP - v)
       /\ reply.remainingIncludingPending = Max(0, WITHDRAWAL_24H_CAP - (v + q))
       /\ reply.remainingVerified \in 0..WITHDRAWAL_24H_CAP
       /\ reply.remainingIncludingPending \in 0..WITHDRAWAL_24H_CAP

(* ------------------------------- C2 ----------------------------------- *)
\* C2: every user's point balance and currency balance are >= 0 in every
\* reachable state, under any interleaving of spins, conversions in both
\* directions, withdrawal requests and verifications
C2_NonNegative ==
  \A u \in Users : pointsCurrent[u] >= 0 /\ balanceDollar[u] >= 0

SpinsOfDay(u, day) ==
  {i \in DOMAIN spins : spins[i].userId = u /\ spins[i].createdAt \div HOURS_24 = day}

\* C4: with dailyLimit (5) spins recorded in the current UTC day, the user's
\* next attempt that day is rejected (with 429 once the kill switch and the
\* wager checks let it through) and changes neither a balance nor the spin
\* records; records of earlier days do not count, so after the day rolls over
\* the user can spin again
C4_DailyQuota ==
  [][\A p \in Procs :
       LET me == procs[p]
           today == Cardinality(SpinsOfDay(me.uid, now \div HOURS_24))
       IN /\ Moves(p, "spin", {"s_count"}, {"idle", "s_load"}) =>
               /\ today >= DAILY_LIMIT =>
                    /\ procs'[p].pc = "idle"
                    /\ reply'.op = "spin" /\ reply'.code = 429
                    /\ <<userDb, spinDb>>' = <<userDb, spinDb>>
               /\ today < DAILY_LIMIT => procs'[p].pc = "s_load"
          /\ (procs[p].pc = "idle" /\ procs' = procs /\ reply'.op = "spin") =>
               /\ reply'.code \in {400, 403}
               /\ <<userDb, spins, nextSid>>' = <<userDb, spins, nextSid>>
          /\ Moves(p, "spin", {"s_load", "s_inc", "s_create"}, {"s_inc", "s_create", "idle"})
               => today <= DAILY_LIMIT]_vars

\* the day has rolled over: after 5 spins recorded on the first day a spin has
\* just succeeded on the second
C4_Witness ==
  /\ reply.op = "spin" /\ reply.code = 200
  /\ now \div HOURS_24 = 1
  /\ Cardinality(SpinsOfDay(reply.uid, 0)) = DAILY_LIMIT
  /\ Cardinality(SpinsOfDay(reply.uid, 1)) = 1

(* ------------------------------- C11 ---------------------------------- *)
\* the dates that count towards u's window: verifiedAt of the verified records
\* and requestedAt of the pending records at or after since
WindowDates(u, since) ==
  {withdrawals[i].verifiedAt : i \in {j \in DOMAIN withdrawals :
       /\ withdrawals[j].userId = u /\ withdrawals[j].status = "verified"
       /\ withdrawals[j].verifiedAt >= since}}
  \cup
  {withdrawals[i].requestedAt : i \in {j \in DOMAIN withdrawals :
       /\ withdrawals[j].userId = u /\ withdrawals[j].status = "pending"
       /\ withdrawals[j].requestedAt >= since}}

\* nextAllowedAt as the summary has to report it over the window from since
SummaryNextAllowedAt(u, since) ==
  IF LedgerSum(u, "verified", since) + LedgerSum(u, "pending", since)
       >= WITHDRAWAL_24H_CAP
  THEN CHOOSE d \in {x + HOURS_24 : x \in WindowDates(u, since)} :
         \A x \in WindowDates(u, since) : d <= x + HOURS_24
  ELSE None

\* C11: in the summary of Get withdrawal summary, and in the fresh summary
\* after a successful Request withdrawal, nextAllowedAt is non-null exactly
\* when verified total + pending total of the window >= cap, and is then 24
\* hours after the earliest in-window verifiedAt / pending requestedAt
C11_NextAllowedAt ==
  [][/\ reply'.op = "summary" =>
          reply'.nextAllowedAt = SummaryNextAllowedAt(reply'.uid, now - HOURS_24)
     /\ \A p \in Procs :
          Moves(p, "withdraw", {"w_summary"}, {"idle"}) =>
             /\ reply'.code = 200
             /\ reply'.nextAllowedAt
                  = SummaryNextAllowedAt(procs[p].uid, procs[p].since)]_vars

(* ------------------------------- C12 ---------------------------------- *)
\* verifiedAt of u's verified records at or after since
VerifiedDates(u, since) ==
  {withdrawals[i].verifiedAt : i \in {j \in DOMAIN withdrawals :
       /\ withdrawals[j].userId = u /\ withdrawals[j].status = "verified"
       /\ withdrawals[j].verifiedAt >= since}}

\* C12: when Verify is rejected because the record's amount exceeds
\* cap - verified total of the window, the rejection carries
\* remaining = max(0, cap - verified total) and, if the owner has a verified
\* record inside the window, nextAllowedAt = earliest in-window verifiedAt
\* + 24h (non-null); no balance and no record is changed
C12_VerifyCapRejection ==
  [][\A p \in Procs :
       Moves(p, "verify", {"v_capNext"}, {"idle"}) =>
          LET me == procs[p]
              v == LedgerSum(me.owner, "verified", me.since)
              ds == VerifiedDates(me.owner, me.since)
          IN /\ me.amt > WITHDRAWAL_24H_CAP - v
             /\ reply'.code = 400 /\ reply'.err = "Verifying would exceed cap"
             /\ reply'.remainingVerified = Max(0, WITHDRAWAL_24H_CAP - v)
             /\ ds # {} =>
                  /\ reply'.nextAllowedAt # None
                  /\ \E d \in ds : /\ reply'.nextAllowedAt = d + HOURS_24
                                   /\ \A x \in ds : d <= x
             /\ <<userDb, ledgerDb>>' = <<userDb, ledgerDb>>]_vars

(* ------------------------------- C13 ---------------------------------- *)
\* a delete request arrives in slot p (it may be answered at once)
DeleteArrives(p) ==
  /\ procs[p].pc = "idle"
  /\ procs'[p].op = "delete" \/ (procs' = procs /\ reply'.op = "delete")
  /\ \A q \in Procs : q < p => procs[q].pc # "idle"

\* C13: a withdrawal record is removed by a non-admin only if that user owns
\* it and its status is pending at the moment it is removed; a non-owner
\* non-admin gets 403 and an owner of a non-pending record gets 400, both
\* without removing anything; this also when an admin's Verify or Reject runs
\* concurrently with the owner's Delete
C13_DeleteAuthorized ==
  [][\A p \in Procs :
       /\ DeleteArrives(p) =>
            LET started == procs'[p].op = "delete"
                u == IF started THEN procs'[p].uid ELSE reply'.uid
                wid == IF started THEN procs'[p].wid ELSE reply'.wid
            IN /\ withdrawals' = withdrawals
               /\ (wid \in DOMAIN withdrawals /\ Role(u) # "admin") =>
                    /\ withdrawals[wid].userId # u
                         => ~started /\ reply'.code = 403
                    /\ (withdrawals[wid].userId = u
                        /\ withdrawals[wid].status # "pending")
                         => ~started /\ reply'.code = 400
       /\ (procs[p].op = "delete" /\ Role(procs[p].uid) # "admin") =>
            \A i \in DOMAIN withdrawals \ DOMAIN withdrawals' :
               (i = procs[p].wid /\ procs'[p].pc = "d_summary") =>
                  /\ withdrawals[i].userId = procs[p].uid
                  /\ withdrawals[i].status = "pending"]_vars

(* ------------------------------- C14 ---------------------------------- *)
\* a request of kind op arrives in slot p (it may be answered at once)
Arrives(p, op) ==
  /\ procs[p].pc = "idle"
  /\ procs'[p].op = op \/ (procs' = procs /\ reply'.op = op)
  /\ \A q \in Procs : q < p => procs[q].pc # "idle"

\* the user and the argument of the request that arrives in slot p
ArrivedUid(p, op) == IF procs'[p].op = op THEN procs'[p].uid ELSE reply'.uid
ArrivedArg(p, op) == IF procs'[p].op = op THEN procs'[p].arg ELSE reply'.arg

\* C14: conversion conserves value at 1 point = 0.003 currency.  A successful
\* points->currency conversion of p points (p clamped to the points held,
\* rejected if <= 0) takes exactly p points and adds exactly p * rate; a
\* successful currency->points conversion credits n = floor(amount / rate)
\* points (rejected if n = 0) and debits exactly n * rate, not the raw amount
C14_ConversionExact ==
  [][\A p \in Procs :
       LET me == procs[p]
       IN /\ Arrives(p, "convert") =>
               LET u == ArrivedUid(p, "convert")
                   arg == ArrivedArg(p, "convert")
                   pts == IF arg = None THEN pointsCurrent[u]
                          ELSE Min(arg, pointsCurrent[u])
               IN /\ userDb' = userDb
                  /\ (arg = None \/ arg >= 0) =>
                       IF pts <= 0 THEN procs' = procs /\ reply'.code = 400
                       ELSE procs'[p].op = "convert" /\ procs'[p].amt = pts
          /\ Moves(p, "convert", {"c_save"}, {"idle"}) =>
               /\ reply'.code = 200 /\ reply'.delta = me.amt
               /\ pointsCurrent' = [pointsCurrent EXCEPT ![me.uid] = @ - me.amt]
               /\ balanceDollar' =
                    [balanceDollar EXCEPT ![me.uid] = @ + me.amt * POINT_TO_USD]
          /\ Arrives(p, "convertBack") =>
               LET u == ArrivedUid(p, "convertBack")
                   arg == ArrivedArg(p, "convertBack")
                   amount == IF arg = None THEN balanceDollar[u]
                             ELSE Min(arg, balanceDollar[u])
                   n == amount \div POINT_TO_USD
               IN /\ userDb' = userDb
                  /\ ((arg = None \/ arg > 0) /\ amount > 0) =>
                       IF n = 0 THEN procs' = procs /\ reply'.code = 400
                       ELSE procs'[p].op = "convertBack" /\ procs'[p].amt = n
          /\ Moves(p, "convertBack", {"b_save"}, {"idle"}) =>
               /\ reply'.code = 200 /\ reply'.delta = me.amt
               /\ pointsCurrent' = [pointsCurrent EXCEPT ![me.uid] = @ + me.amt]
               /\ balanceDollar' =
                    [balanceDollar EXCEPT ![me.uid] = @ - me.amt * POINT_TO_USD]]_vars

C16_PercentsSumTo100 ==
  (reply.op = "spin" /\ reply.code = 200) =>
    LET tiers == Range(reply.options)
        sum == SumOver(reply.percents, tiers)
    IN /\ reply.arg \in MIN_BET..MAX_BET_SERVER
       /\ reply.options = getPresetOptionsServer(reply.arg)
       /\ DOMAIN reply.percents = tiers
       /\ \A v \in tiers : reply.percents[v] > 0
       /\ sum <= 100 * PERCENT
       /\ sum >= 100 * PERCENT - Len(reply.options)
       /\ Len(reply.weights) = Len(reply.options)
       /\ \A i \in DOMAIN reply.weights : reply.weights[i] > 0

\* a spin of 50, whose tiers below 20 were scaled down by line 726
C16_Witness ==
  /\ reply.op = "spin" /\ reply.code = 200 /\ reply.arg = 50
  /\ reply.percents[0] > 0
  /\ reply.percents[0] < PERCENT \div 10
  /\ reply.percents[50] > 20 * PERCENT
  /\ SumOver(reply.percents, Range(reply.options)) > 99 * PERCENT

\* C17: for every wager from 10 to 100 the tier list returned with a spin is
\* the list of getPresetOptionsServer, holds non-negative integers only, holds
\* no value twice, is strictly ascending (its last element is above every
\* other), and holds a value at or above the wager.
C17_TiersSorted ==
  (reply.op = "spin" /\ reply.code = 200) =>
    LET options == reply.options
    IN /\ reply.arg \in MIN_BET..MAX_BET_SERVER
       /\ options = getPresetOptionsServer(reply.arg)
       /\ \A i \in DOMAIN options : options[i] \in Nat
       /\ Cardinality(Range(options)) = Len(options)
       /\ \A i \in DOMAIN options, j \in DOMAIN options :
            i < j => options[i] < options[j]
       /\ \A i \in DOMAIN options :
            i < Len(options) => options[i] < options[Len(options)]
       /\ \E i \in DOMAIN options : options[i] >= reply.arg

\* a spin of 49, whose list is built by rounding, Set and sort
C17_Witness ==
  /\ reply.op = "spin" /\ reply.code = 200 /\ reply.arg = 49
  /\ reply.options = <<0, 3, 5, 25, 29, 37, 42, 49, 98, 196, 392>>

\* weightedPick on arrays that genOutcomeWeights does not produce: one or two
\* items, weights that may be zero, Math.random() at both ends of its range
PickSamples ==
  \A items \in {<<7>>, <<7, 9>>} :
    \A weights \in [DOMAIN items -> {0, 1, 5}] :
      \A random \in {0, 1, RANDOM_GRID \div 2, RANDOM_GRID - 1} :
        weightedPick(items, weights, random) \in Range(items)

\* C18: the outcome a spin draws, records and reports is one of the tiers
\* generated for its wager, never null and never a value outside the list;
\* weightedPick returns one of its items for non-empty arrays of equal
\* length; a spin of 10 yields one of 0, 3, 5, 7, 8, 10, 15, 20, 50, 80, 100.
C18_OutcomeInTiers ==
  /\ \A p \in Procs :
       (procs[p].op = "spin" /\ procs[p].pc \in {"s_inc", "s_create"}) =>
         /\ procs[p].out # None
         /\ procs[p].out \in Range(getPresetOptionsServer(procs[p].arg))
  /\ \A sid \in DOMAIN spins :
       /\ spins[sid].won \in Range(getPresetOptionsServer(spins[sid].bet))
       /\ spins[sid].bet = 10 =>
            spins[sid].won \in {0, 3, 5, 7, 8, 10, 15, 20, 50, 80, 100}
  /\ (reply.op = "spin" /\ reply.code = 200) =>
       /\ reply.out # None
       /\ reply.out \in Range(reply.options)
       /\ reply.out \in Range(getPresetOptionsServer(reply.arg))
       /\ PickSamples

\* a spin of 10 that drew 80, a spin of 100 that drew the top prize
C18_Witness ==
  /\ reply.op = "spin" /\ reply.code = 200
  /\ \/ reply.arg = 10 /\ reply.out = 80 /\ spins[reply.wid].won = 80
     \/ reply.arg = 100 /\ reply.out = 750 /\ spins[reply.wid].won = 750

\* C19: a spin request that starts right after an admin's Set spin control
\* with disabled = true has completed (no other Set completes in between) is
\* rejected with 403 carrying the reason the admin gave (the placeholder of
\* line 775 when the admin gave none), changes no balance and creates no spin
\* record, however many spin-control documents the store holds.
C19_KillSwitch ==
  [][\A p \in Procs :
       (/\ reply.op = "setControl" /\ reply.code = 200 /\ reply.disabled
        /\ Arrives(p, "spin"))
       => /\ reply'.op = "spin" /\ reply'.code = 403
          /\ reply'.reason = ReasonShown(reply.reason)
          /\ UNCHANGED <<userDb, spins, nextSid>>]_vars

\* C20: no update of a balance is lost when spin, conversion and verification
\* requests of one user interleave: every write to a balance changes the
\* stored value by exactly the change its request reports (a conversion's
\* convertedPoints and addedDollar, a convert-back's addedPoints and
\* deductedDollar, a spin's delta, a verification's debit), and nothing else
\* writes a balance; the balances then equal the initial ones plus the sum of
\* the reported changes.
C20_NoLostUpdate ==
  [][/\ \A p \in Procs :
          LET me == procs[p]
              u == me.uid
          IN /\ Moves(p, "convert", {"c_save"}, {"idle"}) =>
                  /\ pointsCurrent'[u] = pointsCurrent[u] - reply'.delta
                  /\ balanceDollar'[u] = balanceDollar[u] + reply'.added
             /\ Moves(p, "convertBack", {"b_save"}, {"idle"}) =>
                  /\ pointsCurrent'[u] = pointsCurrent[u] + reply'.delta
                  /\ balanceDollar'[u] = balanceDollar[u] - reply'.deducted
             /\ Moves(p, "spin", {"s_inc"}, {"s_create"}) =>
                  /\ pointsCurrent'[u]
                       = pointsCurrent[u] + SpinDelta(me.arg, me.out)
                  /\ UNCHANGED balanceDollar
             /\ UserSaveStep(p) =>
                  /\ balanceDollar'[me.owner]
                       = balanceDollar[me.owner] - (me.bal - me.newBal)
                  /\ UNCHANGED pointsCurrent
     /\ userDb' # userDb =>
          \E p \in Procs : \/ Moves(p, "convert", {"c_save"}, {"idle"})
                           \/ Moves(p, "convertBack", {"b_save"}, {"idle"})
                           \/ Moves(p, "spin", {"s_inc"}, {"s_create"})
                           \/ UserSaveStep(p)]_vars

\* C24: the caps hold on the percentages a spin returns: for a wager above 10
\* tier 0 and tier 5 (when present) have at most 1 percent each, and for a
\* wager of 50 or more the tiers below 20 have at most 1 percent together.
C24_CapsReturned ==
  (reply.op = "spin" /\ reply.code = 200) =>
    LET tiers == Range(reply.options)
    IN /\ reply.arg > 10 =>
            \A v \in tiers \cap {0, 5} : reply.percents[v] <= PERCENT
       /\ reply.arg >= 50 =>
            SumOver(reply.percents, {v \in tiers : v < 20}) <= PERCENT

\* the sum of won - bet over the spin records ids
RECURSIVE SpinDeltaSum(_, _)
SpinDeltaSum(ss, ids) ==
  IF ids = {} THEN 0
  ELSE LET i == CHOOSE x \in ids : TRUE
       IN SpinDelta(ss[i].bet, ss[i].won) + SpinDeltaSum(ss, ids \ {i})

\* C21: spin completion is all-or-nothing: whenever no spin request is in
\* flight, each user's point balance is the starting balance plus the deltas
\* of that user's spin records, so no balance change stays without a record
\* (a spin whose record was not written has no effect on the balance).
C21_SpinAllOrNothing ==
  (\A p \in Procs : procs[p].pc = "idle") =>
    \A u \in Users :
      pointsCurrent[u]
        = (IF Role(u) = "admin" THEN 0 ELSE 20)
          + SpinDeltaSum(spins, {i \in DOMAIN spins : spins[i].userId = u})

\* a verification in slot p finishes in this step
VerifyFinishes(p) ==
  /\ procs[p].op = "verify"
  /\ procs[p].pc \in {"v_save", "v_saveU", "v_saveW", "v_saveU_failed",
                      "v_saveW_failed"}
  /\ procs'[p].pc = "idle"

\* C22: verification is all-or-nothing: when a Verify request that set out to
\* debit the owner finishes, with success or with an error, either the record
\* is 'verified' and the balance is the debited one, or the record is not
\* 'verified' and the balance is the one the request found.
C22_VerifyAllOrNothing ==
  [][\A p \in Procs :
       LET me == procs[p]
           verified == /\ me.wid \in DOMAIN withdrawals'
                       /\ withdrawals'[me.wid].status = "verified"
       IN (VerifyFinishes(p) /\ me.newBal # me.bal) =>
            \/ verified /\ balanceDollar'[me.owner] = me.newBal
            \/ ~verified /\ balanceDollar'[me.owner] = me.bal]_vars

\* the first spin-control document in natural order has the switch engaged
SwitchEngaged == spinControls # <<>> /\ spinControls[1].disabled
BetValid(bet) == bet >= MIN_BET /\ bet <= MAX_BET_SERVER
\* the wager check has just been made on bet by the request in slot p
BetChecked(p, bet) ==
  IF BetValid(bet)
  THEN procs'[p].pc = "s_count" /\ reply' = NoReply
  ELSE /\ procs'[p].pc = "idle"
       /\ reply'.op = "spin" /\ reply'.code = 400
       /\ reply'.err \in {"Invalid bet", "Maximum bet"}
\* a step of the spin request in slot p up to and including its balance check
SpinPrecheckStep(p) ==
  \/ Arrives(p, "spin")
  \/ Moves(p, "spin", {"s_ctrlCreate"}, {"idle", "s_count"})
  \/ Moves(p, "spin", {"s_count"}, {"idle", "s_load"})
  \/ Moves(p, "spin", {"s_load"}, {"idle", "s_inc"})
\* the four checks in their order, each answering with its own condition
\* whatever the later checks would find, and the draw only after the last
SpinChecksInOrder(p) ==
  LET me == procs[p]
  IN /\ Arrives(p, "spin") =>
          IF SwitchEngaged
          THEN /\ procs'[p].pc = "idle"
               /\ reply'.op = "spin" /\ reply'.code = 403
          ELSE IF spinControls = <<>> THEN procs'[p].pc = "s_ctrlCreate"
          ELSE BetChecked(p, ArrivedArg(p, "spin"))
     /\ Moves(p, "spin", {"s_ctrlCreate"}, {"idle", "s_count"}) =>
          BetChecked(p, me.arg)
     /\ Moves(p, "spin", {"s_count"}, {"idle", "s_load"}) =>
          IF Cardinality(SpinsOfDay(me.uid, now \div HOURS_24)) >= DAILY_LIMIT
          THEN /\ procs'[p].pc = "idle"
               /\ reply'.op = "spin" /\ reply'.code = 429
          ELSE procs'[p].pc = "s_load" /\ reply' = NoReply
     /\ Moves(p, "spin", {"s_load"}, {"idle", "s_inc"}) =>
          IF me.arg > pointsCurrent[me.uid]
          THEN /\ procs'[p].pc = "idle"
               /\ reply'.op = "spin" /\ reply'.code = 400
               /\ reply'.err = "Insufficient points."
          ELSE /\ procs'[p].pc = "s_inc" /\ reply' = NoReply
               /\ procs'[p].out \in Range(OutcomeWeights[me.arg].options)
     /\ (SpinPrecheckStep(p) /\ procs'[p].pc # "s_inc") =>
          procs'[p].out = None /\ reply'.out = None

\* C23 as stated: the spin preconditions are checked in the order kill switch,
\* wager validity, daily quota, balance; a request is answered with the
\* condition of the first check that fails; no outcome is drawn and nothing
\* at all is written to the store before all four checks have passed.
C23_NoWriteBeforeChecks ==
  [][\A p \in Procs :
       /\ SpinChecksInOrder(p)
       /\ SpinPrecheckStep(p) => UNCHANGED <<userDb, spinDb>>]_vars

\* C23, amended: the same order of checks and replies; before all four checks
\* have passed no outcome is drawn, no balance is written and no spin record
\* is created; the one write a request may make before its checks is the
\* default spin-control document (disabled = false) created when its read
\* of the store found none.
C23_ChecksInOrder ==
  [][\A p \in Procs :
       /\ SpinChecksInOrder(p)
       /\ SpinPrecheckStep(p) =>
            /\ UNCHANGED <<userDb, spins, nextSid>>
            /\ \/ UNCHANGED spinControls
               \/ spinControls' = Append(spinControls, NewSpinControl)]_vars

\* a request that had used up its quota and could not have paid its wager
\* either has just been answered 429
C23_Witness ==
  /\ reply.op = "spin" /\ reply.code = 429
  /\ reply.arg > pointsCurrent[reply.uid]

\* C25: at most one spin-control document exists in the store in every
\* reachable state, when Get spin control, Set spin control and spin requests
\* interleave starting from an empty store.
C25_Singleton == Len(spinControls) <= 1

\* C26: a failed 24-hour aggregation never lets a withdrawal request through
\* on substituted zero totals: a request that leaves its first aggregation
\* either goes on to the second or is answered 500, and a non-admin's pending
\* record is created only when its amount fits under the cap next to the
\* user's verified and pending amounts of the window; and no successful
\* summary shows zero spent, zero pending and full headroom while the user
\* has amounts in the window.
C26_AggregationFailure ==
  [][/\ \A p \in Procs :
          LET me == procs[p]
              total == VerifiedTotal(withdrawals, me.uid, me.since)
                         + PendingTotal(withdrawals, me.uid, me.since)
          IN /\ Moves(p, "withdraw", {"w_aggV"}, {"w_capNext", "w_create", "idle"}) =>
                  reply'.op = "withdraw" /\ reply'.code = 500
             /\ (Moves(p, "withdraw", {"w_create"}, {"w_summary"})
                   /\ Role(me.uid) # "admin") =>
                  me.amt <= RemainingOf(total)
     /\ (reply'.op = "summary" /\ reply'.code = 200) =>
          LET v == VerifiedTotal(withdrawals, reply'.uid, now - MS_24H)
              q == PendingTotal(withdrawals, reply'.uid, now - MS_24H)
          IN v + q > 0 =>
               ~(/\ reply'.spent24 = 0 /\ reply'.pending24 = 0
                 /\ reply'.remainingIncludingPending = WITHDRAWAL_24H_CAP)]_vars

\* C27: for every user and every UTC day, the number of spin records created
\* for the user within that day never exceeds DAILY_LIMIT, when spin requests
\* of the same user interleave.
C27_QuotaUnderConcurrency ==
  \A u \in Users, day \in 0..(MaxTime \div HOURS_24) :
    Cardinality(SpinsOfDay(u, day)) <= DAILY_LIMIT

\* C28: for every non-admin user, in every reachable state, the verified
\* amounts verified within the trailing 24 hours plus the pending amounts
\* requested within the trailing 24 hours are at most the cap.
C28_SoftReservation ==
  \A u \in Users \ Admins :
    LedgerSum(u, "verified", now - HOURS_24)
      + LedgerSum(u, "pending", now - HOURS_24) <= WITHDRAWAL_24H_CAP

\* C29: verified withdrawals are fully funded: a verification that goes on to
\* mark its record 'verified' debits the owner by the whole amount of the
\* record (the balance it saves is the balance it read less the amount), so
\* that the verified amounts of a user add up to what verifications debited.
C29_FullyFunded ==
  [][\A p \in Procs :
       Moves(p, "verify", {"v_agg"}, {"v_save"}) =>
         procs'[p].bal - procs'[p].newBal = procs'[p].amt]_vars

\* C30: a withdrawal record causes at most one debit when Verify requests for
\* it overlap: once no request is in flight, a user's balance has gone down
\* by no more than the amounts of the user's verified records; and two
\* requests for the same record never both report success (stated for two
\* requests that finish in consecutive steps).
C30_OneDebit ==
  /\ []((\A p \in Procs : procs[p].pc = "idle") =>
          \A u \in Users \ Admins :
            USD(120) - balanceDollar[u] <=
              SumAmount(withdrawals,
                        {i \in DOMAIN withdrawals :
                           /\ withdrawals[i].userId = u
                           /\ withdrawals[i].status = "verified"}))
  /\ [][~(/\ reply.op = "verify" /\ reply.code = 200
          /\ reply'.op = "verify" /\ reply'.code = 200
          /\ reply'.wid = reply.wid)]_vars
====
